---- MODULE Spec2Model ----
(***************************************************************************)
(* A model of the BabyJay query pipeline: the chat session (ask,           *)
(* clear_history, the clarification dialogue), the POST /api/chat          *)
(* endpoint, the query router's strategy cascade and the live course       *)
(* lookup with topic resolution.                                           *)
(*                                                                         *)
(* Text is modelled as Python models it: a string is a sequence of         *)
(* one-character strings, and the helpers below are str.lower, str.strip,  *)
(* str.split, the "in" substring test and str.startswith.                  *)
(***************************************************************************)
EXTENDS Integers, Sequences, FiniteSets, TLC

\* ------------------------------------------------------------------ text

UpperCase == <<"A","B","C","D","E","F","G","H","I","J","K","L","M","N","O","P","Q","R","S","T","U","V","W","X","Y","Z">>
LowerCase == <<"a","b","c","d","e","f","g","h","i","j","k","l","m","n","o","p","q","r","s","t","u","v","w","x","y","z">>
Digits == <<"0","1","2","3","4","5","6","7","8","9">>

Range(f) == {f[i] : i \in DOMAIN f}

\* The value Python writes None.
None == <<"None">>

UpperSet == Range(UpperCase)
LowerSet == Range(LowerCase)
DigitSet == Range(Digits)

\* the mapping of each character of one alphabet to its place in the other
case_map(from, to) == [c \in Range(from) |-> to[CHOOSE i \in DOMAIN from : from[i] = c]]

ToLower == case_map(UpperCase, LowerCase)
ToUpper == case_map(LowerCase, UpperCase)

isupper_char(c) == c \in UpperSet
isdigit_char(c) == c \in DigitSet
isalpha_char(c) == c \in UpperSet \/ c \in LowerSet
isalnum_char(c) == isalpha_char(c) \/ isdigit_char(c)
isspace_char(c) == c = " "

\* the string with every character the table knows replaced
RECURSIVE map_chars(_, _, _, _)
map_chars(table, s, i, acc) ==
    IF i > Len(s) THEN acc
    ELSE map_chars(table, s, i + 1,
                   Append(acc, IF s[i] \in DOMAIN table THEN table[s[i]] ELSE s[i]))

\* str.lower()
lower(s) == map_chars(ToLower, s, 1, << >>)

\* str.upper()
upper(s) == map_chars(ToUpper, s, 1, << >>)

\* str.strip(): leading and trailing whitespace removed
strip(s) ==
    LET keep == {i \in 1..Len(s) : ~isspace_char(s[i])}
    IN  IF keep = {} THEN << >>
        ELSE SubSeq(s, CHOOSE i \in keep : \A j \in keep : i <= j,
                       CHOOSE i \in keep : \A j \in keep : j <= i)

\* str.rstrip(chars): trailing characters of the set removed
rstrip_chars(s, chars) ==
    LET keep == {i \in 1..Len(s) : s[i] \notin chars}
    IN  IF keep = {} THEN << >>
        ELSE SubSeq(s, 1, CHOOSE i \in keep : \A j \in keep : j <= i)

\* sub in s
contains(sub, s) ==
    \E i \in 0..(Len(s) - Len(sub)) : SubSeq(s, i + 1, i + Len(sub)) = sub

\* s.startswith(p)
startswith(s, p) == Len(p) <= Len(s) /\ SubSeq(s, 1, Len(p)) = p

\* any(p in s for p in ps)
contains_any(ps, s) == \E i \in DOMAIN ps : contains(ps[i], s)

\* s in [ ... ]
in_list(s, ps) == \E i \in DOMAIN ps : ps[i] = s

\* the place of the first whitespace of t, 0 when it has none
first_space(t) ==
    IF \E i \in 1..Len(t) : isspace_char(t[i])
    THEN CHOOSE i \in 1..Len(t) : isspace_char(t[i]) /\ \A j \in 1..(i - 1) : ~isspace_char(t[j])
    ELSE 0

RECURSIVE split(_)

split_at(t, k) ==
    IF k = 0 THEN <<t>> ELSE <<SubSeq(t, 1, k - 1)>> \o split(SubSeq(t, k + 1, Len(t)))

split_words(t) == IF t = << >> THEN << >> ELSE split_at(t, first_space(t))

\* str.split(): the words between runs of whitespace
split(s) == split_words(strip(s))

\* str.lstrip(): leading whitespace removed
\* str.lstrip(chars): leading characters of the set removed
lstrip_chars(s, chars) ==
    LET keep == {i \in 1..Len(s) : s[i] \notin chars}
    IN  IF keep = {} THEN << >>
        ELSE SubSeq(s, CHOOSE i \in keep : \A j \in keep : i <= j, Len(s))

lstrip(s) ==
    LET keep == {i \in 1..Len(s) : ~isspace_char(s[i])}
    IN  IF keep = {} THEN << >>
        ELSE SubSeq(s, CHOOSE i \in keep : \A j \in keep : i <= j, Len(s))

\* f"{a} {b}"
join2(a, b) == a \o <<" ">> \o b

\* ------------------------------------------------------------ the state

VARIABLES
    bot,            \* the BabyJayChat object serving the session
    _smart_cache,   \* the course cache shared by every session of the process
    clock,          \* time.time()
    conversations,  \* the conversations table behind /api/chat
    rate_limiter,   \* the RateLimiter object of the process
    done            \* what the last operation did and returned

vars == <<bot, _smart_cache, clock, conversations, rate_limiter, done>>

\* ------------------------------- query_preprocessor.py: QueryPreprocessor

\* a table in which an expansion is itself an abbreviation
synonyms_chained ==
    <<<<<<"m","l">>, <<"a","i">>>>, <<<<"a","i">>, <<"a","r","t","i","f","i","c","i","a","l"," ","i","n","t","e","l","l","i","g","e","n","c","e">>>>>>

\* self.synonyms, each entry <<abbreviation, expansion>>
synonyms == <<
    <<<<"p","r","e","r","e","q">>, <<"p","r","e","r","e","q","u","i","s","i","t","e">>>>, <<<<"p","r","e","r","e","q","s">>, <<"p","r","e","r","e","q","u","i","s","i","t","e","s">>>>,
    <<<<"c","o","r","e","q">>, <<"c","o","r","e","q","u","i","s","i","t","e">>>>, <<<<"c","o","r","e","q","s">>, <<"c","o","r","e","q","u","i","s","i","t","e","s">>>>,
    <<<<"p","r","o","f">>, <<"p","r","o","f","e","s","s","o","r">>>>, <<<<"p","r","o","f","s">>, <<"p","r","o","f","e","s","s","o","r","s">>>>,
    <<<<"d","e","p","t">>, <<"d","e","p","a","r","t","m","e","n","t">>>>, <<<<"i","n","t","r","o">>, <<"i","n","t","r","o","d","u","c","t","i","o","n">>>>,
    <<<<"a","d","v">>, <<"a","d","v","a","n","c","e","d">>>>, <<<<"g","r","a","d">>, <<"g","r","a","d","u","a","t","e">>>>,
    <<<<"u","n","d","e","r","g","r","a","d">>, <<"u","n","d","e","r","g","r","a","d","u","a","t","e">>>>, <<<<"l","a","b">>, <<"l","a","b","o","r","a","t","o","r","y">>>>,
    <<<<"s","e","m">>, <<"s","e","m","i","n","a","r">>>>, <<<<"l","e","c">>, <<"l","e","c","t","u","r","e">>>>, <<<<"r","e","c">>, <<"r","e","c","i","t","a","t","i","o","n">>>>,
    <<<<"m","l">>, <<"m","a","c","h","i","n","e"," ","l","e","a","r","n","i","n","g">>>>, <<<<"a","i">>, <<"a","r","t","i","f","i","c","i","a","l"," ","i","n","t","e","l","l","i","g","e","n","c","e">>>>,
    <<<<"d","l">>, <<"d","e","e","p"," ","l","e","a","r","n","i","n","g">>>>, <<<<"n","l","p">>, <<"n","a","t","u","r","a","l"," ","l","a","n","g","u","a","g","e"," ","p","r","o","c","e","s","s","i","n","g">>>>,
    <<<<"c","v">>, <<"c","o","m","p","u","t","e","r"," ","v","i","s","i","o","n">>>>, <<<<"d","s">>, <<"d","a","t","a"," ","s","c","i","e","n","c","e">>>>,
    <<<<"c","s">>, <<"c","o","m","p","u","t","e","r"," ","s","c","i","e","n","c","e">>>>, <<<<"e","e">>, <<"e","l","e","c","t","r","i","c","a","l"," ","e","n","g","i","n","e","e","r","i","n","g">>>>,
    <<<<"c","e">>, <<"c","i","v","i","l"," ","e","n","g","i","n","e","e","r","i","n","g">>>>, <<<<"m","e">>, <<"m","e","c","h","a","n","i","c","a","l"," ","e","n","g","i","n","e","e","r","i","n","g">>>>,
    <<<<"t","i","c">>, <<"a","e","r","o","s","p","a","c","e">>>>, <<<<"b","i","o">>, <<"b","i","o","l","o","g","y">>>>, <<<<"c","h","e","m">>, <<"c","h","e","m","i","s","t","r","y">>>>,
    <<<<"p","h","y","s">>, <<"p","h","y","s","i","c","s">>>>, <<<<"p","s","y","c","h">>, <<"p","s","y","c","h","o","l","o","g","y">>>>, <<<<"e","c","o","n">>, <<"e","c","o","n","o","m","i","c","s">>>>,
    <<<<"p","o","l","i"," ","s","c","i">>, <<"p","o","l","i","t","i","c","a","l"," ","s","c","i","e","n","c","e">>>>, <<<<"p","o","l","i","s","c","i">>, <<"p","o","l","i","t","i","c","a","l"," ","s","c","i","e","n","c","e">>>>,
    <<<<"c","o","m","m">>, <<"c","o","m","m","u","n","i","c","a","t","i","o","n">>>>, <<<<"c","a","l","c">>, <<"c","a","l","c","u","l","u","s">>>>,
    <<<<"s","t","a","t","s">>, <<"s","t","a","t","i","s","t","i","c","s">>>>, <<<<"s","t","a","t">>, <<"s","t","a","t","i","s","t","i","c","s">>>>,
    <<<<"o","r","g","o">>, <<"o","r","g","a","n","i","c"," ","c","h","e","m","i","s","t","r","y">>>>, <<<<"o","c","h","e","m">>, <<"o","r","g","a","n","i","c"," ","c","h","e","m","i","s","t","r","y">>>>,
    <<<<"b","i","o","c","h","e","m">>, <<"b","i","o","c","h","e","m","i","s","t","r","y">>>>, <<<<"c","l","a","s","s">>, <<"c","o","u","r","s","e">>>>,
    <<<<"c","l","a","s","s","e","s">>, <<"c","o","u","r","s","e","s">>>> >>

protected_words == {
    <<"a">>, <<"a","b","o","u","t">>, <<"a","d","v","a","n","c","e","d">>, <<"a","l","l">>, <<"a","n">>, <<"a","n","d">>, <<"a","n","y">>, <<"a","r","e">>, <<"a","s">>,
    <<"a","t">>, <<"b","a","s","i","c">>, <<"b","e">>, <<"b","e","e","n">>, <<"b","e","i","n","g">>, <<"b","y">>, <<"c","a","n">>, <<"c","l","a","s","s">>,
    <<"c","l","a","s","s","e","s">>, <<"c","o","l","l","e","g","e">>, <<"c","o","u","l","d">>, <<"c","o","u","r","s","e">>, <<"c","o","u","r","s","e","s">>, <<"c","r","e","d","i","t">>, <<"c","r","e","d","i","t","s">>,
    <<"d","e","p","a","r","t","m","e","n","t">>, <<"d","i","d">>, <<"d","i","f","f","i","c","u","l","t">>, <<"d","o">>, <<"d","o","e","s">>, <<"e","a","s","y">>, <<"f","a","l","l">>, <<"f","o","r">>,
    <<"f","r","e","s","h","m","a","n">>, <<"f","r","o","m">>, <<"g","r","a","d","u","a","t","e">>, <<"h","a","r","d">>, <<"h","e">>, <<"h","e","r","e">>, <<"h","o","u","r">>, <<"h","o","u","r","s">>,
    <<"h","o","w">>, <<"h","y","b","r","i","d">>, <<"i">>, <<"i","n">>, <<"i","n","t","o">>, <<"i","s">>, <<"i","t">>, <<"j","u","n","i","o","r">>, <<"l","e","v","e","l">>,
    <<"m","a","y">>, <<"m","e">>, <<"m","i","g","h","t">>, <<"m","u","s","t">>, <<"m","y">>, <<"n","o">>, <<"n","o","t">>, <<"o","f">>, <<"o","n">>,
    <<"o","n","l","i","n","e">>, <<"o","r">>, <<"p","e","r","s","o","n">>, <<"s","c","h","o","o","l">>, <<"s","e","m","e","s","t","e","r">>, <<"s","e","n","i","o","r">>, <<"s","h","e">>,
    <<"s","h","o","u","l","d">>, <<"s","i","m","p","l","e">>, <<"s","o","m","e">>, <<"s","o","p","h","o","m","o","r","e">>, <<"s","p","r","i","n","g">>, <<"s","u","m","m","e","r">>, <<"t","h","a","t">>,
    <<"t","h","e">>, <<"t","h","e","r","e">>, <<"t","h","e","s","e">>, <<"t","h","e","y">>, <<"t","h","i","s">>, <<"t","h","o","s","e">>, <<"t","h","r","o","u","g","h">>, <<"t","o">>,
    <<"u","n","d","e","r","g","r","a","d","u","a","t","e">>, <<"w","a","s">>, <<"w","e">>, <<"w","e","r","e">>, <<"w","h","a","t">>, <<"w","h","e","n">>, <<"w","h","e","r","e">>, <<"w","h","i","c","h">>,
    <<"w","h","o">>, <<"w","h","o","m">>, <<"w","h","o","s","e">>, <<"w","h","y">>, <<"w","i","l","l">>, <<"w","i","n","t","e","r">>, <<"w","i","t","h">>, <<"w","o","u","l","d">>,
    <<"y","o","u">>, <<"y","o","u","r">> }

course_vocabulary == {
    <<"a","c","c","o","u","n","t","i","n","g">>, <<"a","d","v","a","n","c","e","d">>, <<"a","l","g","e","b","r","a">>, <<"a","l","g","o","r","i","t","h","m","s">>, <<"a","n","a","l","y","s","i","s">>,
    <<"a","p","p","l","i","c","a","t","i","o","n","s">>, <<"a","r","t">>, <<"a","r","t","i","f","i","c","i","a","l">>, <<"b","i","o","c","h","e","m","i","s","t","r","y">>, <<"b","i","o","l","o","g","y">>, <<"b","u","s","i","n","e","s","s">>,
    <<"c","a","l","c","u","l","u","s">>, <<"c","e","l","l","u","l","a","r">>, <<"c","h","e","m","i","s","t","r","y">>, <<"c","l","i","m","a","t","e">>, <<"c","o","m","m","u","n","i","c","a","t","i","o","n">>,
    <<"c","o","m","p","u","t","e","r">>, <<"c","o","m","p","u","t","i","n","g">>, <<"c","u","r","r","i","c","u","l","u","m">>, <<"d","a","n","c","e">>, <<"d","a","t","a">>, <<"d","a","t","a","b","a","s","e">>,
    <<"d","e","s","i","g","n">>, <<"d","y","n","a","m","i","c","s">>, <<"e","c","o","n","o","m","i","c","s">>, <<"e","d","u","c","a","t","i","o","n">>, <<"e","l","e","c","t","r","o","n","i","c","s">>, <<"e","n","e","r","g","y">>,
    <<"e","n","g","i","n","e","e","r","i","n","g">>, <<"e","n","v","i","r","o","n","m","e","n","t","a","l">>, <<"f","i","l","m">>, <<"f","i","n","a","n","c","e">>, <<"f","o","u","n","d","a","t","i","o","n","s">>,
    <<"f","u","n","d","a","m","e","n","t","a","l","s">>, <<"g","e","o","m","e","t","r","y">>, <<"g","l","o","b","a","l">>, <<"h","a","r","d","w","a","r","e">>, <<"h","e","a","l","t","h">>, <<"h","i","s","t","o","r","y">>,
    <<"i","n","o","r","g","a","n","i","c">>, <<"i","n","t","e","l","l","i","g","e","n","c","e">>, <<"i","n","t","e","r","m","e","d","i","a","t","e">>, <<"i","n","t","e","r","n","a","t","i","o","n","a","l">>, <<"i","n","t","r","o","d","u","c","t","i","o","n">>,
    <<"j","o","u","r","n","a","l","i","s","m">>, <<"l","a","w">>, <<"l","e","a","d","e","r","s","h","i","p">>, <<"l","e","a","r","n","i","n","g">>, <<"l","i","t","e","r","a","t","u","r","e">>, <<"m","a","c","h","i","n","e">>,
    <<"m","a","n","a","g","e","m","e","n","t">>, <<"m","a","r","k","e","t","i","n","g">>, <<"m","a","t","h","e","m","a","t","i","c","s">>, <<"m","e","c","h","a","n","i","c","s">>, <<"m","e","d","i","a">>, <<"m","e","d","i","c","i","n","e">>,
    <<"m","e","t","h","o","d","s">>, <<"m","o","l","e","c","u","l","a","r">>, <<"m","u","s","i","c">>, <<"n","e","t","w","o","r","k","s">>, <<"n","u","r","s","i","n","g">>, <<"o","r","g","a","n","i","c">>,
    <<"p","h","a","r","m","a","c","y">>, <<"p","h","i","l","o","s","o","p","h","y">>, <<"p","h","y","s","i","c","s">>, <<"p","o","l","i","t","i","c","a","l">>, <<"p","r","a","c","t","i","c","e">>, <<"p","r","i","n","c","i","p","l","e","s">>,
    <<"p","r","o","b","a","b","i","l","i","t","y">>, <<"p","r","o","g","r","a","m","m","i","n","g">>, <<"p","s","y","c","h","o","l","o","g","y">>, <<"r","e","s","e","a","r","c","h">>, <<"s","c","i","e","n","c","e">>,
    <<"s","e","c","u","r","i","t","y">>, <<"s","o","c","i","a","l">>, <<"s","o","f","t","w","a","r","e">>, <<"s","t","a","t","i","s","t","i","c","s">>, <<"s","t","r","u","c","t","u","r","e","s">>,
    <<"s","u","s","t","a","i","n","a","b","i","l","i","t","y">>, <<"s","y","s","t","e","m","s">>, <<"t","e","a","c","h","i","n","g">>, <<"t","h","e","a","t","r","e">>, <<"t","h","e","o","r","y">>,
    <<"t","h","e","r","m","o","d","y","n","a","m","i","c","s">>, <<"w","r","i","t","i","n","g">> }

\* self.synonyms.get(key), None when the key is absent
table_get(table, key) ==
    IF \E i \in DOMAIN table : table[i][1] = key
    THEN table[CHOOSE i \in DOMAIN table : table[i][1] = key][2]
    ELSE None

\* " ".join(tokens)
RECURSIVE join(_)
join(tokens) ==
    IF tokens = << >> THEN << >>
    ELSE IF Len(tokens) = 1 THEN tokens[1]
    ELSE tokens[1] \o <<" ">> \o join(Tail(tokens))

\* str.isupper: some cased character and no lowercase one
isupper(s) ==
    /\ \E i \in 1..Len(s) : isupper_char(s[i])
    /\ \A i \in 1..Len(s) : s[i] \notin LowerSet

isdigit(s) == s # << >> /\ \A i \in 1..Len(s) : isdigit_char(s[i])

isalpha(s) == s # << >> /\ \A i \in 1..Len(s) : isalpha_char(s[i])

\* ---- rapidfuzz

Max(a, b) == IF a >= b THEN a ELSE b

\* One row of the longest-common-subsequence table: the row of character c
\* over the word b, from the row before it.  The row built so far holds the
\* entries of the columns 0..Len(acc) - 1.
RECURSIVE lcs_row(_, _, _, _)
lcs_row(prev, c, b, acc) ==
    IF Len(acc) > Len(b) THEN acc
    ELSE lcs_row(prev, c, b,
                 Append(acc, IF c = b[Len(acc)] THEN prev[Len(acc)] + 1
                             ELSE Max(prev[Len(acc) + 1], acc[Len(acc)])))

RECURSIVE lcs_rows(_, _, _, _)
lcs_rows(a, b, i, prev) ==
    IF i > Len(a) \/ Len(prev) = 0 THEN prev[Len(prev)]
    ELSE lcs_rows(a, b, i + 1, lcs_row(prev, a[i], b, <<0>>))

\* the length of the longest common subsequence of a and b
lcs(a, b) == lcs_rows(a, b, 1, [j \in 1..(Len(b) + 1) |-> 0])

\* fuzz.ratio(a, b) >= percent, where fuzz.ratio is
\* 100 * 2 * lcs(a, b) / (len(a) + len(b))
ratio_at_least(a, b, percent) ==
    200 * lcs(a, b) >= percent * (Len(a) + Len(b))

\* whether a word of this length can reach the ratio at all: the common
\* subsequence is no longer than the shorter word
can_reach(a, b, percent) ==
    200 * (IF Len(a) <= Len(b) THEN Len(a) ELSE Len(b)) >= percent * (Len(a) + Len(b))

\* the choice of the best ratio among those near enough
best_of(query, near) ==
    IF near = {} THEN None
    ELSE CHOOSE b \in near :
            \A other \in near :
               lcs(query, b) * (Len(query) + Len(other))
                   >= lcs(query, other) * (Len(query) + Len(b))

\* process.extractOne(query, choices, scorer=fuzz.ratio) when its score is at
\* least percent, None when the best score is lower.  Of several choices with
\* the best score Python returns the first in the order of the set.
extractOne(query, choices, percent) ==
    best_of(query, {b \in choices : can_reach(query, b, percent)
                                    /\ ratio_at_least(query, b, percent)})

\* ---- the pipeline

\* re.sub(r'[^\w\s\-]', ' ', query)
RECURSIVE sub_special(_, _, _)
sub_special(query, i, acc) ==
    IF i > Len(query) THEN acc
    ELSE sub_special(query, i + 1,
             Append(acc, IF \/ isalnum_char(query[i]) \/ isspace_char(query[i])
                            \/ query[i] \in {"_", "-"}
                         THEN query[i] ELSE " "))

\* _normalize: special characters to spaces, whitespace collapsed, stripped,
\* lowercased
_normalize(query) ==
    IF strip(query) = << >> THEN << >>
    ELSE lower(join(split(sub_special(query, 1, << >>))))

\* re.match(r'^([a-zA-Z]{2,4})(\d{3,4})$', token): the length of the letters, or 0
course_match(token) ==
    IF \E n \in 2..4 : /\ Len(token) - n \in 3..4
                       /\ isalpha(SubSeq(token, 1, n))
                       /\ isdigit(SubSeq(token, n + 1, Len(token)))
    THEN CHOOSE n \in 2..4 : /\ Len(token) - n \in 3..4
                             /\ isalpha(SubSeq(token, 1, n))
                             /\ isdigit(SubSeq(token, n + 1, Len(token)))
    ELSE 0

\* _fuzzy_match_subject_code
_fuzzy_match_subject_code(valid_subject_codes, token) ==
    IF valid_subject_codes = {} THEN None
    ELSE IF ~(Len(token) \in 2..5 /\ \A i \in 1..Len(token) : isupper_char(token[i]))
    THEN None
    ELSE extractOne(token, valid_subject_codes, 80)

\* the result of _detect_codes and of the two passes after it
Tokens(tokens, found) == [tokens |-> tokens, found |-> found]

\* f"{subject} {number}" for the token "eecs168" with n letters
spaced_code(token_upper, n) ==
    SubSeq(token_upper, 1, n) \o <<" ">> \o SubSeq(token_upper, n + 1, Len(token_upper))

\* _detect_codes, one token: acc carries processed_tokens and detected_codes
detect_code(valid_subject_codes, tokens, i, acc, token_upper, n, best_match) ==
    IF n # 0
    THEN [next |-> i + 1,
          acc |-> Tokens(Append(acc.tokens, spaced_code(token_upper, n)),
                         Append(acc.found, spaced_code(token_upper, n)))]
    ELSE IF token_upper \in valid_subject_codes
    THEN IF i + 1 <= Len(tokens) /\ isdigit(tokens[i + 1])
         THEN [next |-> i + 2,
               acc |-> Tokens(Append(acc.tokens, token_upper \o <<" ">> \o tokens[i + 1]),
                              acc.found \o <<token_upper,
                                             token_upper \o <<" ">> \o tokens[i + 1]>>)]
         ELSE [next |-> i + 1,
               acc |-> Tokens(Append(acc.tokens, token_upper),
                              Append(acc.found, token_upper))]
    ELSE IF Len(tokens[i]) \in 2..4 /\ isalpha(tokens[i]) /\ best_match # None
    THEN [next |-> i + 1,
          acc |-> Tokens(Append(acc.tokens, best_match), Append(acc.found, best_match))]
    ELSE [next |-> i + 1, acc |-> Tokens(Append(acc.tokens, tokens[i]), acc.found)]

RECURSIVE detect_codes_from(_, _, _, _)

detect_codes_step(valid_subject_codes, tokens, step) ==
    detect_codes_from(valid_subject_codes, tokens, step.next, step.acc)

detect_codes_from(valid_subject_codes, tokens, i, acc) ==
    IF i > Len(tokens) THEN acc
    ELSE detect_codes_step(valid_subject_codes, tokens,
             detect_code(valid_subject_codes, tokens, i, acc, upper(tokens[i]),
                         course_match(tokens[i]),
                         _fuzzy_match_subject_code(valid_subject_codes, upper(tokens[i]))))

\* _detect_codes: tokens with the codes joined and upper-cased, and detected_codes
_detect_codes(valid_subject_codes, query) ==
    detect_codes_from(valid_subject_codes, split(query), 1, Tokens(<< >>, << >>))

Correction(type, original, corrected) ==
    [type |-> type, original |-> original, corrected |-> corrected]

\* _apply_synonyms, one token: acc carries processed and corrections
apply_synonym(valid_subject_codes, tokens, i, acc, token, two_word, expansion2, expansion) ==
    IF isupper(tokens[i]) /\ Len(tokens[i]) <= 5
    THEN [next |-> i + 1, acc |-> Tokens(Append(acc.tokens, tokens[i]), acc.found)]
    ELSE IF i + 1 <= Len(tokens) /\ expansion2 # None
    THEN [next |-> i + 2,
          acc |-> Tokens(acc.tokens \o split(expansion2),
                         Append(acc.found, Correction("synonym", two_word, expansion2)))]
    ELSE IF expansion # None
    THEN IF upper(token) \in valid_subject_codes
         THEN [next |-> i + 1, acc |-> Tokens(Append(acc.tokens, upper(token)), acc.found)]
         ELSE [next |-> i + 1,
               acc |-> Tokens(acc.tokens \o split(expansion),
                              Append(acc.found, Correction("synonym", token, expansion)))]
    ELSE [next |-> i + 1, acc |-> Tokens(Append(acc.tokens, tokens[i]), acc.found)]

RECURSIVE apply_synonyms_from(_, _, _, _)

apply_synonyms_step(valid_subject_codes, tokens, step) ==
    apply_synonyms_from(valid_subject_codes, tokens, step.next, step.acc)

apply_synonyms_pair(valid_subject_codes, tokens, i, acc, token, two_word) ==
    apply_synonyms_step(valid_subject_codes, tokens,
        apply_synonym(valid_subject_codes, tokens, i, acc, token, two_word,
                      table_get(synonyms, two_word), table_get(synonyms, token)))

apply_synonyms_from(valid_subject_codes, tokens, i, acc) ==
    IF i > Len(tokens) THEN acc
    ELSE apply_synonyms_pair(valid_subject_codes, tokens, i, acc, lower(tokens[i]),
             IF i + 1 <= Len(tokens)
             THEN lower(tokens[i]) \o <<" ">> \o lower(tokens[i + 1]) ELSE None)

\* _apply_synonyms: processed and corrections
_apply_synonyms(valid_subject_codes, tokens) ==
    apply_synonyms_from(valid_subject_codes, tokens, 1, Tokens(<< >>, << >>))

fuzzy_corrected(word_lower, match) ==
    IF match # None /\ match # word_lower THEN match ELSE word_lower

\* _fuzzy_correct_word
_fuzzy_correct_word(word) ==
    fuzzy_corrected(lower(word), extractOne(lower(word), course_vocabulary, 85))

typo_corrected(acc, token, token_lower, corrected) ==
    IF corrected # token_lower
    THEN Tokens(Append(acc.tokens, corrected),
                Append(acc.found, Correction("typo", token, corrected)))
    ELSE Tokens(Append(acc.tokens, token), acc.found)

\* _apply_fuzzy_correction, one token
apply_fuzzy(acc, token, token_lower) ==
    IF \/ token_lower \in protected_words \/ isupper(token) \/ isdigit(token)
       \/ Len(token) <= 2 \/ token_lower \in course_vocabulary
    THEN Tokens(Append(acc.tokens, token), acc.found)
    ELSE typo_corrected(acc, token, token_lower, _fuzzy_correct_word(token))

RECURSIVE apply_fuzzy_from(_, _, _)
apply_fuzzy_from(tokens, i, acc) ==
    IF i > Len(tokens) THEN acc
    ELSE apply_fuzzy_from(tokens, i + 1, apply_fuzzy(acc, tokens[i], lower(tokens[i])))

\* _apply_fuzzy_correction: processed and corrections
_apply_fuzzy_correction(tokens) == apply_fuzzy_from(tokens, 1, Tokens(<< >>, << >>))

\* preprocess, from the tokens of each step on
preprocessed(normalized, detected, syn, fuz) ==
    [normalized |-> normalized, processed |-> join(fuz.tokens),
     corrections |-> syn.found \o fuz.found, detected_codes |-> detected.found]

preprocess_typos(normalized, detected, syn) ==
    preprocessed(normalized, detected, syn, _apply_fuzzy_correction(syn.tokens))

preprocess_synonyms(valid_subject_codes, normalized, detected) ==
    preprocess_typos(normalized, detected,
                     _apply_synonyms(valid_subject_codes, detected.tokens))

preprocess_codes(valid_subject_codes, normalized) ==
    IF normalized = << >>
    THEN [normalized |-> << >>, processed |-> << >>, corrections |-> << >>,
          detected_codes |-> << >>]
    ELSE preprocess_synonyms(valid_subject_codes, normalized,
                             _detect_codes(valid_subject_codes, normalized))

\* QueryPreprocessor(valid_subject_codes).preprocess(query)
preprocess(valid_subject_codes, query) ==
    preprocess_codes(valid_subject_codes, _normalize(query))
\* ------------------------------------------------------------ the preprocessor on its own

\* the subject codes the module's own test configures
TestSubjectCodes ==
    {<<"E","E","C","S">>, <<"A","E">>, <<"M","A","T","H">>, <<"P","H","S","X">>, <<"C","H","E","M">>, <<"B","I","O","L">>, <<"P","S","Y","C">>, <<"E","C","O","N">>,
     <<"C","S">>, <<"M","E">>, <<"C","E">>}

\* The configured sets of valid subject codes: none (the router and the chat
\* build QueryPreprocessor()), the test's, and catalogs with a subject "SCI"
ValidSubjectCodes ==
    {{}, TestSubjectCodes, {<<"S","C","I">>}, TestSubjectCodes \cup {<<"S","C","I">>}}

\* catalog codes: the letters of the subject and the digits of the number
CatalogCodes ==
    {<<<<"e","e","c","s">>, <<"1","6","8">>>>, <<<<"c","s">>, <<"1","0","1">>>>, <<<<"a","e">>, <<"3","4","5">>>>,
     <<<<"m","a","t","h">>, <<"1","2","3","4">>>>, <<<<"m","e">>, <<"2","1","0">>>>, <<<<"E","E","C","S">>, <<"1","6","8">>>>,
     <<<<"p","h","s","x">>, <<"1","1","4">>>>, <<<<"b","i","o">>, <<"1","0","0">>>>}

\* "eecs 168"
spaced(code) == code[1] \o <<" ">> \o code[2]

\* "eecs168"
joined(code) == code[1] \o code[2]

\* the upper-cased code, "EECS 168"
upper_code(code) == upper(code[1]) \o <<" ">> \o code[2]

OtherQueries ==
    {<< >>, <<" "," ">>, <<"p","o","l","i"," ","s","c","i">>, <<"P","o","l","i"," ","S","c","i"," ","1","1","0">>, <<"i","n","t","r","o"," ","t","o"," ","m","l">>,
     <<"p","r","e","r","e","q","s"," ","f","o","r"," ","e","e","c","s","1","6","8">>, <<"m","a","c","h","n","e"," ","l","e","a","r","n","i","n","g">>, <<"w","h","o"," ","t","e","a","c","h","e","s"," ","a","i">>,
     <<"s","t","a","t","s"," ","c","l","a","s","s">>, <<"o","r","g","o"," ","l","a","b">>, <<"t","e","a","c","h"," ","m","e"," ","c","s">>, <<"C","S"," ","p","r","o","f","s">>,
     <<"w","h","a","t"," ","i","s"," ","e","e","c","s"," ","1","6","8"," ","a","b","o","u","t","?">>, <<"p","o","l","i","s","c","i"," ","d","e","p","t">>, <<"c","a","l","c"," ","2">>,
     <<"d","e","e","p"," ","l","e","r","n","i","n","g"," ","c","o","u","r","s","e","s">>, <<"s","c","i"," ","f","i">>, <<"p","o","l","i"," ","s","c","i"," ","a","n","d"," ","c","s">>,
     <<"m","a","t","h">>, <<"c","h","e","m">>, <<"m","e","t","h"," ","1","0","1">>}

PreQueries ==
    {spaced(code) : code \in CatalogCodes} \cup {joined(code) : code \in CatalogCodes}
    \cup OtherQueries

\* ---- bounds
MaxApplications == 2

\* A QueryPreprocessor(valid_subject_codes) and a query for it
Input(valid_subject_codes, query) ==
    [op |-> "input", valid_subject_codes |-> valid_subject_codes, query |-> query,
     tokens |-> split(query), corrections |-> << >>, applied |-> 0, expanded |-> 0]

InitPre ==
    /\ bot = None
    /\ _smart_cache = None
    /\ clock = 0
    /\ conversations = << >>
    /\ \E valid_subject_codes \in ValidSubjectCodes, query \in PreQueries :
          done = Input(valid_subject_codes, query)
    /\ rate_limiter = None

\* preprocess(query)
Preprocess ==
    /\ done.op = "input"
    /\ done' = [op |-> "preprocess", valid_subject_codes |-> done.valid_subject_codes,
                query |-> done.query,
                result |-> preprocess(done.valid_subject_codes, done.query)]
    /\ UNCHANGED <<bot, _smart_cache, clock, conversations>>
    /\ UNCHANGED rate_limiter

\* tokens, detected_codes = self._detect_codes(normalized)
DetectCodes ==
    /\ done.op = "input"
    /\ done' = [done EXCEPT !.op = "detect_codes",
                            !.tokens = _detect_codes(done.valid_subject_codes,
                                                     _normalize(done.query)).tokens]
    /\ UNCHANGED <<bot, _smart_cache, clock, conversations>>
    /\ UNCHANGED rate_limiter

Applied(state, result) ==
    [state EXCEPT !.op = "synonyms", !.tokens = result.tokens,
                  !.corrections = result.found, !.applied = state.applied + 1,
                  !.expanded = state.expanded + Len(result.found)]

\* tokens, synonym_corrections = self._apply_synonyms(tokens), on the words of
\* the query, on the tokens of _detect_codes or on its own output
ApplySynonyms ==
    /\ done.op \in {"input", "detect_codes", "synonyms"}
    /\ done.applied < MaxApplications
    /\ done' = Applied(done, _apply_synonyms(done.valid_subject_codes, done.tokens))
    /\ UNCHANGED <<bot, _smart_cache, clock, conversations>>
    /\ UNCHANGED rate_limiter

NextPre == Preprocess \/ DetectCodes \/ ApplySynonyms

SpecPre == InitPre /\ [][NextPre]_vars

\* ------------------------------------------------------------ re: the patterns the classifier uses

LetterSet == UpperSet \cup LowerSet

SpaceSet == {" "}

\* The pieces of a pattern.  A position is the number of characters before it.
\* \b
B == [kind |-> "boundary"]

\* (one|two|three), and a literal text as the group of one alternative
Lit(alternatives) == [kind |-> "group", of |-> alternatives]

\* (one|two)?
Opt(alternatives) == [kind |-> "group", of |-> alternatives \cup {<< >>}]

\* [A-Z]{2,4} and \d{3,4}
Cls(chars, min, max) == [kind |-> "class", chars |-> chars, min |-> min, most |-> {max}]

\* [a-z]+ and the like: at least min characters of the set
AtLeast(chars, min) == [kind |-> "class", chars |-> chars, min |-> min, most |-> {}]

\* \s* and \s+
Spaces(min) == AtLeast(SpaceSet, min)

\* .*
AnyText == [kind |-> "any"]

\* \w
isword_char(c) == isalnum_char(c) \/ c = "_"

\* \b matches at position p: exactly one of the characters around it is a word
\* character
at_boundary(text, p) ==
    (p > 0 /\ isword_char(text[p])) # (p < Len(text) /\ isword_char(text[p + 1]))

\* the text goes on with the word w after position p
follows(text, p, w) ==
    p + Len(w) <= Len(text) /\ \A k \in 1..Len(w) : text[p + k] = w[k]

\* the lengths a class may take after position p
class_lengths(piece, text, p) ==
    {n \in piece.min..(Len(text) - p) :
        /\ \A most \in piece.most : n <= most
        /\ \A k \in 1..n : text[p + k] \in piece.chars}

\* the positions where a piece that starts at position p may end
after(piece, text, p) ==
    CASE piece.kind = "boundary" -> IF at_boundary(text, p) THEN {p} ELSE {}
      [] piece.kind = "group" -> {p + Len(w) : w \in {w \in piece.of : follows(text, p, w)}}
      [] piece.kind = "class" -> {p + n : n \in class_lengths(piece, text, p)}
      [] piece.kind = "any" -> p..Len(text)

\* the positions where the pieces from the k-th on may end, from any of the
\* positions given
RECURSIVE matched(_, _, _, _)
matched(pattern, k, text, positions) ==
    IF k > Len(pattern) \/ positions = {} THEN positions
    ELSE matched(pattern, k + 1, text,
                 UNION {after(pattern[k], text, p) : p \in positions})

\* the positions where a match of the pattern that starts at position p may end
span(pattern, text, p) == matched(pattern, 1, text, {p})

\* re.search(pattern, text) finds a match
search(pattern, text) == matched(pattern, 1, text, 0..Len(text)) # {}

\* the least and the greatest of a set of positions
least(positions) == CHOOSE p \in positions : \A q \in positions : p <= q

greatest(positions) == CHOOSE p \in positions : \A q \in positions : p >= q

\* match.start() of re.search(pattern, text), when there is a match
start_of(pattern, text) == least({p \in 0..Len(text) : span(pattern, text, p) # {}})

\* self.intent_patterns, each entry <<intent, patterns>>, in the order of the dict
intent_patterns == <<
    <<"housing_info", <<
        <<B, Lit({<<"h","o","u","s","i","n","g">>, <<"d","o","r","m">>, <<"d","o","r","m","i","t","o","r","y">>, <<"r","e","s","i","d","e","n","c","e"," ","h","a","l","l">>, <<"a","p","a","r","t","m","e","n","t">>, <<"l","i","v","i","n","g">>, <<"r","o","o","m","m","a","t","e">>}), B>>,
        <<B, Lit({<<"s","c","h","o","l","a","r","s","h","i","p"," ","h","a","l","l">>, <<"s","c","h","o","l","a","r","s","h","i","p"," ","h","a","l","l","s">>}), B>>,
        <<B, Lit({<<"c","o","r","b","i","n">>, <<"e","l","l","s","w","o","r","t","h">>, <<"h","a","s","h","i","n","g","e","r">>, <<"l","e","w","i","s">>, <<"o","s","w","a","l","d">>, <<"t","e","m","p","l","i","n">>, <<"d","o","w","n","s">>, <<"g","s","p">>}), B>>,
        <<B, Lit({<<"w","h","e","r","e">>}), AnyText, Lit({<<"l","i","v","e">>, <<"s","t","a","y">>}), B>> >> >>,
    <<"faculty_search", <<
        <<B, Lit({<<"p","r","o","f","e","s","s","o","r">>, <<"p","r","o","f","e","s","s","o","r","s">>, <<"f","a","c","u","l","t","y">>, <<"r","e","s","e","a","r","c","h","e","r">>, <<"r","e","s","e","a","r","c","h","e","r","s">>, <<"i","n","s","t","r","u","c","t","o","r">>, <<"i","n","s","t","r","u","c","t","o","r","s">>, <<"t","e","a","c","h","e","r">>, <<"t","e","a","c","h","e","r","s">>}), B>>,
        <<B, Lit({<<"w","h","o"," ","t","e","a","c","h","e","s">>, <<"w","h","o"," ","d","o","e","s"," ","r","e","s","e","a","r","c","h">>, <<"e","x","p","e","r","t"," ","i","n">>, <<"s","p","e","c","i","a","l","i","s","t"," ","i","n">>}), B>>,
        <<B, Lit({<<"r","e","s","e","a","r","c","h"," ","i","n">>, <<"w","o","r","k","i","n","g"," ","o","n">>, <<"s","t","u","d","i","e","s">>, <<"s","t","u","d","y","i","n","g">>}), B, AnyText, B, Opt({<<"p","r","o","f","e","s","s","o","r">>, <<"f","a","c","u","l","t","y">>}), B>> >> >>,
    <<"course_info", <<
        <<B, Cls(LetterSet, 2, 4), Spaces(0), Cls(DigitSet, 3, 4), B>>,
        <<B, Lit({<<"c","o","u","r","s","e">>, <<"c","o","u","r","s","e","s">>, <<"c","l","a","s","s">>, <<"c","l","a","s","s","e","s">>}), B>>,
        <<B, Lit({<<"p","r","e","r","e","q","u","i","s","i","t","e">>, <<"p","r","e","r","e","q","u","i","s","i","t","e","s">>, <<"p","r","e","r","e","q">>, <<"p","r","e","r","e","q","s">>, <<"c","o","r","e","q","u","i","s","i","t","e">>, <<"c","o","r","e","q","u","i","s","i","t","e","s">>}), B>>,
        <<B, Lit({<<"c","r","e","d","i","t">>, <<"c","r","e","d","i","t","s">>, <<"c","r","e","d","i","t"," ","h","o","u","r">>, <<"c","r","e","d","i","t"," ","h","o","u","r","s">>}), B>>,
        <<B, Lit({<<"e","n","r","o","l","l">>, <<"e","n","r","o","l","l","m","e","n","t">>, <<"r","e","g","i","s","t","e","r">>, <<"r","e","g","i","s","t","r","a","t","i","o","n">>}), B>>,
        <<B, Lit({<<"s","y","l","l","a","b","u","s">>, <<"c","u","r","r","i","c","u","l","u","m">>}), B>>,
        <<B, Lit({<<"l","e","a","r","n","i","n","g">>, <<"p","r","o","g","r","a","m","m","i","n","g">>, <<"c","a","l","c","u","l","u","s">>, <<"p","h","y","s","i","c","s">>, <<"c","h","e","m","i","s","t","r","y">>, <<"b","i","o","l","o","g","y">>, <<"e","n","g","i","n","e","e","r","i","n","g">>}), B>>,
        <<B, Lit({<<"l","e","a","r","n","i","n","g">>, <<"p","r","o","g","r","a","m","m","i","n","g">>, <<"c","a","l","c","u","l","u","s">>, <<"p","h","y","s","i","c","s">>, <<"c","h","e","m","i","s","t","r","y">>, <<"b","i","o","l","o","g","y">>, <<"e","n","g","i","n","e","e","r","i","n","g">>}), B>>,
        <<B, Lit({<<"l","e","a","r","n","i","n","g">>, <<"p","r","o","g","r","a","m","m","i","n","g">>, <<"c","a","l","c","u","l","u","s">>, <<"p","h","y","s","i","c","s">>, <<"c","h","e","m","i","s","t","r","y">>, <<"b","i","o","l","o","g","y">>, <<"e","n","g","i","n","e","e","r","i","n","g">>}), B>>,
        <<B, Lit({<<"u","n","d","e","r","g","r","a","d","u","a","t","e">>, <<"g","r","a","d","u","a","t","e">>, <<"g","r","a","d">>, <<"u","n","d","e","r","g","r","a","d">>}), Spaces(1), Lit({<<"c","o","u","r","s","e">>, <<"c","o","u","r","s","e","s">>, <<"c","l","a","s","s">>, <<"c","l","a","s","s","e","s">>, <<"l","e","v","e","l">>}), B>>,
        <<B, Lit({<<"w","h","a","t">>}), AnyText, Lit({<<"c","o","u","r","s","e">>, <<"c","l","a","s","s">>, <<"p","r","e","r","e","q","u","i","s","i","t","e">>, <<"p","r","e","r","e","q">>}), B>>,
        <<B, Lit({<<"t","a","k","e">>, <<"t","a","k","i","n","g">>, <<"n","e","e","d"," ","t","o"," ","t","a","k","e">>}), B, AnyText, B, Lit({<<"c","o","u","r","s","e">>, <<"c","l","a","s","s">>}), B>>,
        <<B, Lit({<<"p","r","e","r","e","q">>}), AnyText, Lit({<<"f","o","r">>}), B>> >> >>,
    <<"dining_info", <<
        <<B, Lit({<<"e","a","t">>, <<"f","o","o","d">>, <<"d","i","n","i","n","g">>, <<"r","e","s","t","a","u","r","a","n","t">>, <<"h","u","n","g","r","y">>, <<"l","u","n","c","h">>, <<"d","i","n","n","e","r">>, <<"b","r","e","a","k","f","a","s","t">>, <<"c","o","f","f","e","e">>, <<"c","a","f","e">>, <<"c","a","f","e","t","e","r","i","a">>, <<"m","e","a","l">>}), B>>,
        <<B, Lit({<<"w","h","e","r","e">>}), AnyText, Lit({<<"e","a","t">>, <<"f","o","o","d">>, <<"h","u","n","g","r","y">>}), B>> >> >>,
    <<"transit_info", <<
        <<B, Lit({<<"b","u","s">>, <<"t","r","a","n","s","i","t">>, <<"r","o","u","t","e">>, <<"t","r","a","n","s","p","o","r","t","a","t","i","o","n">>, <<"s","h","u","t","t","l","e">>, <<"p","a","r","k","i","n","g">>, <<"s","a","f","e","b","u","s">>, <<"r","i","d","e">>}), B>> >> >>,
    <<"building_info", <<
        <<B, Lit({<<"b","u","i","l","d","i","n","g">>, <<"w","h","e","r","e"," ","i","s">>, <<"l","o","c","a","t","i","o","n"," ","o","f">>, <<"f","i","n","d">>, <<"d","i","r","e","c","t","i","o","n","s"," ","t","o">>}), B>> >> >>,
    <<"admission_info", <<
        <<B, Lit({<<"a","d","m","i","s","s","i","o","n">>, <<"a","d","m","i","s","s","i","o","n","s">>, <<"a","p","p","l","y">>, <<"a","p","p","l","i","c","a","t","i","o","n">>, <<"d","e","a","d","l","i","n","e">>, <<"r","e","q","u","i","r","e","m","e","n","t">>, <<"t","r","a","n","s","f","e","r">>, <<"f","r","e","s","h","m","a","n">>, <<"a","c","c","e","p","t">>}), B>> >> >>,
    <<"financial_info", <<
        <<B, Lit({<<"t","u","i","t","i","o","n">>, <<"c","o","s","t">>, <<"f","e","e">>, <<"f","e","e","s">>, <<"h","o","w"," ","m","u","c","h">>, <<"p","a","y","m","e","n","t">>, <<"b","i","l","l","i","n","g">>}), B>>,
        <<B, Lit({<<"f","i","n","a","n","c","i","a","l"," ","a","i","d">>, <<"f","a","f","s","a">>, <<"s","c","h","o","l","a","r","s","h","i","p">>, <<"g","r","a","n","t">>, <<"p","e","l","l">>, <<"l","o","a","n">>}), B>>,
        <<B, Lit({<<"u","n","d","e","r","g","r","a","d","u","a","t","e">>, <<"g","r","a","d","u","a","t","e">>}), AnyText, Lit({<<"c","o","s","t">>, <<"t","u","i","t","i","o","n">>, <<"f","e","e">>, <<"f","e","e","s">>, <<"p","r","i","c","e">>}), B>>,
        <<B, Lit({<<"c","o","s","t">>, <<"t","u","i","t","i","o","n">>, <<"f","e","e">>, <<"f","e","e","s">>, <<"p","r","i","c","e">>}), AnyText, Lit({<<"u","n","d","e","r","g","r","a","d","u","a","t","e">>, <<"g","r","a","d","u","a","t","e">>}), B>> >> >>,
    <<"library_info", <<
        <<B, Lit({<<"l","i","b","r","a","r","y">>, <<"l","i","b","r","a","r","i","e","s">>, <<"s","t","u","d","y"," ","r","o","o","m">>, <<"s","t","u","d","y"," ","s","p","a","c","e">>, <<"b","o","r","r","o","w">>, <<"c","h","e","c","k","o","u","t">>}), B>> >> >>,
    <<"recreation_info", <<
        <<B, Lit({<<"g","y","m">>, <<"r","e","c"," ","c","e","n","t","e","r">>, <<"r","e","c","r","e","a","t","i","o","n">>, <<"f","i","t","n","e","s","s">>, <<"w","o","r","k","o","u","t">>, <<"i","n","t","r","a","m","u","r","a","l">>, <<"a","m","b","l","e","r">>}), B>> >> >>,
    <<"safety_info", <<
        <<B, Lit({<<"s","a","f","e","t","y">>, <<"e","m","e","r","g","e","n","c","y">>, <<"p","o","l","i","c","e">>, <<"s","e","c","u","r","i","t","y">>, <<"e","s","c","o","r","t">>, <<"9","1","1">>, <<"k","u","p","d">>}), B>> >> >>,
    <<"calendar_info", <<
        <<B, Lit({<<"c","a","l","e","n","d","a","r">>, <<"s","e","m","e","s","t","e","r">>, <<"f","i","n","a","l","s">>, <<"b","r","e","a","k">>, <<"h","o","l","i","d","a","y">>, <<"w","h","e","n"," ","d","o","e","s">>}), B>> >> >> >>

\* self.complete_list_indicators
complete_list_indicators == <<
    <<B, Lit({<<"a","l","l">>}), B>>,
    <<B, Lit({<<"e","v","e","r","y">>}), B>>,
    <<B, Lit({<<"c","o","m","p","l","e","t","e"," ","l","i","s","t">>}), B>>,
    <<B, Lit({<<"f","u","l","l"," ","l","i","s","t">>}), B>>,
    <<B, Lit({<<"l","i","s","t"," ","a","l","l">>}), B>>,
    <<B, Lit({<<"s","h","o","w"," ","a","l","l">>}), B>>,
    <<B, Lit({<<"h","o","w"," ","m","a","n","y">>}), B>>,
    <<B, Lit({<<"e","n","t","i","r","e">>}), B>> >>

\* self.department_aliases, each entry <<key, \b(alias|...)\b>>: the pattern of
\* an entry finds a match exactly when the pattern of one of its aliases does
department_aliases == <<
    <<"eecs", <<B, Lit({<<"e","e","c","s">>, <<"c","o","m","p","u","t","e","r"," ","s","c","i","e","n","c","e">>, <<"e","l","e","c","t","r","i","c","a","l"," ","e","n","g","i","n","e","e","r","i","n","g">>, <<"c","s">>, <<"e","c","e">>, <<"c","s","e">>, <<"s","o","f","t","w","a","r","e"," ","e","n","g","i","n","e","e","r","i","n","g">>}), B>> >>,
    <<"business", <<B, Lit({<<"b","u","s","i","n","e","s","s">>, <<"b","u","s","i","n","e","s","s"," ","s","c","h","o","o","l">>, <<"m","b","a">>, <<"m","a","r","k","e","t","i","n","g">>, <<"f","i","n","a","n","c","e">>, <<"a","c","c","o","u","n","t","i","n","g">>, <<"m","a","n","a","g","e","m","e","n","t">>}), B>> >>,
    <<"physics", <<B, Lit({<<"p","h","y","s","i","c","s">>, <<"a","s","t","r","o","n","o","m","y">>, <<"a","s","t","r","o","p","h","y","s","i","c","s">>, <<"p","a","r","t","i","c","l","e"," ","p","h","y","s","i","c","s">>}), B>> >>,
    <<"chemistry", <<B, Lit({<<"c","h","e","m","i","s","t","r","y">>, <<"c","h","e","m">>}), B>> >>,
    <<"math", <<B, Lit({<<"m","a","t","h">>, <<"m","a","t","h","e","m","a","t","i","c","s">>, <<"s","t","a","t","i","s","t","i","c","s">>, <<"s","t","a","t","s">>}), B>> >>,
    <<"psychology", <<B, Lit({<<"p","s","y","c","h","o","l","o","g","y">>, <<"p","s","y","c","h">>}), B>> >>,
    <<"mechanical_engineering", <<B, Lit({<<"m","e","c","h","a","n","i","c","a","l"," ","e","n","g","i","n","e","e","r","i","n","g">>, <<"m","e","c","h","a","n","i","c","a","l">>, <<"m","e","c","h"," ","e","n","g">>}), B>> >>,
    <<"civil_environmental_architectural_engineering", <<B, Lit({<<"c","i","v","i","l"," ","e","n","g","i","n","e","e","r","i","n","g">>, <<"c","i","v","i","l">>, <<"e","n","v","i","r","o","n","m","e","n","t","a","l"," ","e","n","g","i","n","e","e","r","i","n","g">>, <<"a","r","c","h","i","t","e","c","t","u","r","a","l"," ","e","n","g","i","n","e","e","r","i","n","g">>}), B>> >>,
    <<"aerospace_engineering", <<B, Lit({<<"a","e","r","o","s","p","a","c","e">>, <<"a","e","r","o","s","p","a","c","e"," ","e","n","g","i","n","e","e","r","i","n","g">>}), B>> >>,
    <<"bioengineering", <<B, Lit({<<"b","i","o","e","n","g","i","n","e","e","r","i","n","g">>, <<"b","i","o","m","e","d","i","c","a","l"," ","e","n","g","i","n","e","e","r","i","n","g">>, <<"b","m","e">>}), B>> >>,
    <<"chemical_petroleum_engineering", <<B, Lit({<<"c","h","e","m","i","c","a","l"," ","e","n","g","i","n","e","e","r","i","n","g">>, <<"p","e","t","r","o","l","e","u","m"," ","e","n","g","i","n","e","e","r","i","n","g">>, <<"p","e","t","r","o","l","e","u","m">>}), B>> >>,
    <<"law", <<B, Lit({<<"l","a","w">>, <<"l","a","w"," ","s","c","h","o","o","l">>, <<"l","e","g","a","l">>}), B>> >>,
    <<"journalism", <<B, Lit({<<"j","o","u","r","n","a","l","i","s","m">>, <<"m","a","s","s"," ","c","o","m","m","u","n","i","c","a","t","i","o","n","s">>, <<"m","e","d","i","a">>}), B>> >>,
    <<"music", <<B, Lit({<<"m","u","s","i","c">>, <<"b","a","n","d">>, <<"o","r","c","h","e","s","t","r","a">>, <<"c","h","o","i","r">>}), B>> >>,
    <<"pharmacy", <<B, Lit({<<"p","h","a","r","m","a","c","y">>, <<"p","h","a","r","m","a","c","e","u","t","i","c","a","l">>}), B>> >>,
    <<"social_welfare", <<B, Lit({<<"s","o","c","i","a","l"," ","w","o","r","k">>, <<"s","o","c","i","a","l"," ","w","e","l","f","a","r","e">>}), B>> >>,
    <<"education_human_sciences", <<B, Lit({<<"e","d","u","c","a","t","i","o","n">>, <<"t","e","a","c","h","i","n","g">>}), B>> >>,
    <<"architecture", <<B, Lit({<<"a","r","c","h","i","t","e","c","t","u","r","e">>}), B>> >>,
    <<"english", <<B, Lit({<<"e","n","g","l","i","s","h">>, <<"l","i","t","e","r","a","t","u","r","e">>, <<"w","r","i","t","i","n","g">>}), B>> >>,
    <<"history", <<B, Lit({<<"h","i","s","t","o","r","y">>}), B>> >>,
    <<"economics", <<B, Lit({<<"e","c","o","n","o","m","i","c","s">>, <<"e","c","o","n">>}), B>> >>,
    <<"political_science", <<B, Lit({<<"p","o","l","i","t","i","c","a","l"," ","s","c","i","e","n","c","e">>, <<"p","o","l","i","t","i","c","s">>, <<"g","o","v","e","r","n","m","e","n","t">>}), B>> >>,
    <<"sociology", <<B, Lit({<<"s","o","c","i","o","l","o","g","y">>}), B>> >>,
    <<"anthropology", <<B, Lit({<<"a","n","t","h","r","o","p","o","l","o","g","y">>}), B>> >>,
    <<"philosophy", <<B, Lit({<<"p","h","i","l","o","s","o","p","h","y">>}), B>> >>,
    <<"geology", <<B, Lit({<<"g","e","o","l","o","g","y">>, <<"e","a","r","t","h"," ","s","c","i","e","n","c","e">>}), B>> >>,
    <<"biology", <<B, Lit({<<"b","i","o","l","o","g","y">>, <<"b","i","o">>}), B>> >>,
    <<"ecology_evolutionary_biology", <<B, Lit({<<"e","c","o","l","o","g","y">>, <<"e","v","o","l","u","t","i","o","n","a","r","y"," ","b","i","o","l","o","g","y">>, <<"e","v","o","l","u","t","i","o","n">>}), B>> >>,
    <<"molecular_biosciences", <<B, Lit({<<"m","o","l","e","c","u","l","a","r"," ","b","i","o","l","o","g","y">>, <<"b","i","o","s","c","i","e","n","c","e","s">>, <<"b","i","o","c","h","e","m","i","s","t","r","y">>}), B>> >> >>

\* self.research_areas, each entry <<area, \b(keyword|...)\b>>
research_areas == <<
    <<"machine learning", <<B, Lit({<<"m","a","c","h","i","n","e"," ","l","e","a","r","n","i","n","g">>, <<"m","l">>, <<"d","e","e","p"," ","l","e","a","r","n","i","n","g">>, <<"n","e","u","r","a","l"," ","n","e","t","w","o","r","k">>, <<"a","i">>, <<"a","r","t","i","f","i","c","i","a","l"," ","i","n","t","e","l","l","i","g","e","n","c","e">>}), B>> >>,
    <<"robotics", <<B, Lit({<<"r","o","b","o","t","i","c","s">>, <<"r","o","b","o","t">>, <<"a","u","t","o","n","o","m","o","u","s">>}), B>> >>,
    <<"computer vision", <<B, Lit({<<"c","o","m","p","u","t","e","r"," ","v","i","s","i","o","n">>, <<"c","v">>, <<"i","m","a","g","e"," ","p","r","o","c","e","s","s","i","n","g">>, <<"i","m","a","g","e"," ","r","e","c","o","g","n","i","t","i","o","n">>}), B>> >>,
    <<"natural language processing", <<B, Lit({<<"n","a","t","u","r","a","l"," ","l","a","n","g","u","a","g","e"," ","p","r","o","c","e","s","s","i","n","g">>, <<"n","l","p">>, <<"t","e","x","t"," ","m","i","n","i","n","g">>, <<"l","a","n","g","u","a","g","e"," ","m","o","d","e","l">>}), B>> >>,
    <<"cybersecurity", <<B, Lit({<<"c","y","b","e","r","s","e","c","u","r","i","t","y">>, <<"s","e","c","u","r","i","t","y">>, <<"c","r","y","p","t","o","g","r","a","p","h","y">>, <<"p","r","i","v","a","c","y">>}), B>> >>,
    <<"data science", <<B, Lit({<<"d","a","t","a"," ","s","c","i","e","n","c","e">>, <<"d","a","t","a"," ","m","i","n","i","n","g">>, <<"b","i","g"," ","d","a","t","a">>, <<"a","n","a","l","y","t","i","c","s">>}), B>> >>,
    <<"quantum computing", <<B, Lit({<<"q","u","a","n","t","u","m"," ","c","o","m","p","u","t","i","n","g">>, <<"q","u","a","n","t","u","m">>, <<"q","u","a","n","t","u","m"," ","p","h","y","s","i","c","s">>}), B>> >>,
    <<"networking", <<B, Lit({<<"n","e","t","w","o","r","k","i","n","g">>, <<"n","e","t","w","o","r","k","s">>, <<"w","i","r","e","l","e","s","s">>, <<"c","o","m","m","u","n","i","c","a","t","i","o","n","s">>}), B>> >>,
    <<"databases", <<B, Lit({<<"d","a","t","a","b","a","s","e">>, <<"d","a","t","a","b","a","s","e","s">>, <<"s","q","l">>, <<"d","a","t","a"," ","m","a","n","a","g","e","m","e","n","t">>}), B>> >>,
    <<"software engineering", <<B, Lit({<<"s","o","f","t","w","a","r","e"," ","e","n","g","i","n","e","e","r","i","n","g">>, <<"s","o","f","t","w","a","r","e"," ","d","e","v","e","l","o","p","m","e","n","t">>}), B>> >>,
    <<"human computer interaction", <<B, Lit({<<"h","c","i">>, <<"h","u","m","a","n"," ","c","o","m","p","u","t","e","r"," ","i","n","t","e","r","a","c","t","i","o","n">>, <<"u","s","e","r"," ","e","x","p","e","r","i","e","n","c","e">>, <<"u","x">>}), B>> >> >>

\* self.subject_codes, in the order the source writes them
subject_codes == <<
    <<"E","E","C","S">>, <<"A","E">>, <<"M","E">>, <<"C","E">>, <<"C","H","E","M">>, <<"P","H","S","X">>, <<"M","A","T","H">>, <<"B","I","O","L">>,
    <<"P","S","Y","C">>, <<"E","C","O","N">>, <<"E","N","G","L">>, <<"H","I","S","T">>, <<"P","O","L","S">>, <<"S","O","C">>, <<"P","H","I","L">>, <<"G","E","O","L">>,
    <<"A","S","T","R">>, <<"A","C","C","T">>, <<"F","I","N">>, <<"M","G","M","T">>, <<"M","K","T","G">>, <<"J","O","U","R">>, <<"C","O","M","S">>, <<"M","U","S","C">>,
    <<"T","H","E","A">>, <<"D","A","N","C">>, <<"A","R","T">>, <<"A","R","C","H">>, <<"L","A","W">>, <<"P","H","A","R","M">>, <<"N","U","R","S">>, <<"P","E">>,
    <<"E","D","U","C">>, <<"C","S">>, <<"E","C","E">>, <<"B","M","E">>, <<"C","H","E">>, <<"A","R","C","E">>, <<"A","T","M","O">>, <<"G","E","O","G">>,
    <<"A","N","T","H">>, <<"L","I","N","G">>, <<"S","P","A","N">>, <<"F","R","E","N">>, <<"G","E","R","M">>, <<"C","L","A","S">>, <<"E","A","L","C">>, <<"S","L","A","V">>,
    <<"A","F","S","T">>, <<"W","G","S","S">>, <<"A","M","S","T">>, <<"G","I","S","T">>, <<"H","S","E","S">>, <<"S","P","L","H">>, <<"O","T">>, <<"P","T">>,
    <<"R","S","I">>, <<"H","D","S","C">>, <<"B","I","O","S">>, <<"S","T","A","T">>, <<"M","S","C","R">>, <<"P","H","T","X">>, <<"M","D","C","M">>, <<"N","R","S","G">>,
    <<"P","R","N","U">> >>

\* ------------------------------------------------------------ classifier.py: QueryClassifier

\* A dict is a function on its keys, {} the function on no key.  A value that
\* is not there (None) counts as {} where the code only asks whether it is
\* empty.
Empty == << >>

\* d.get(key, default)
get(d, key, default) == IF key \in DOMAIN d THEN d[key] ELSE default

\* d[key] = value, when there is a value to set
with(d, key, value, found) == IF found THEN (key :> value) @@ d ELSE d

\* A confidence: a number, in hundredths.  The answer of the language model
\* may hold something else in its place.
Number(hundredths) == [number |-> hundredths]

Text(s) == [text |-> s]

\* QueryClassifier(): the set self.subject_codes is walked in an order the
\* process fixes
NewClassifier(order) == [subject_codes |-> order]

\* r"\b[A-Z]{2,4}\s*\d{3,4}\b" without re.IGNORECASE
UpperCourseCode == <<B, Cls(UpperSet, 2, 4), Spaces(0), Cls(DigitSet, 3, 4), B>>

\* how many of the patterns find a match
hits(patterns, text) == Cardinality({k \in DOMAIN patterns : search(patterns[k], text)})

\* the score of one intent: 3 for an explicit course code, and 1 for each of
\* its patterns
score_of(entry, text, code_found) ==
    (IF code_found /\ entry[1] = "course_info" THEN 3 ELSE 0) + hits(entry[2], text)

\* the score of every intent, 0 where the dict scores has no entry
RECURSIVE scores_from(_, _, _, _)
scores_from(i, text, code_found, acc) ==
    IF i > Len(intent_patterns) \/ Len(acc) # i - 1 THEN acc
    ELSE scores_from(i + 1, text, code_found,
                     Append(acc, score_of(intent_patterns[i], text, code_found)))

\* the place of an intent among the keys of scores: course_info is the first
\* key when the course code put it there, the others follow in the order of
\* intent_patterns
rank(i, code_found) ==
    IF code_found /\ intent_patterns[i][1] = "course_info" THEN 0 ELSE i

\* max(scores, key=scores.get): the first key with the greatest score
best_intent(scores, code_found) ==
    CHOOSE i \in DOMAIN scores :
        \A j \in DOMAIN scores :
            \/ scores[j] < scores[i]
            \/ scores[j] = scores[i] /\ rank(i, code_found) <= rank(j, code_found)

\* min(0.6 + (max_score * 0.15), 0.95)
confidence_of(max_score) ==
    Number(IF 60 + 15 * max_score <= 95 THEN 60 + 15 * max_score ELSE 95)

regex_intent(scores, best) ==
    IF \A i \in DOMAIN scores : scores[i] = 0 THEN <<"general", Number(30)>>
    ELSE <<intent_patterns[best][1], confidence_of(scores[best])>>

scored_intent(scores, code_found) ==
    regex_intent(scores, best_intent(scores, code_found))

detect_intent(query_lower, code_found) ==
    scored_intent(scores_from(1, query_lower, code_found, << >>), code_found)

\* _detect_intent_regex: <<intent, confidence>>
_detect_intent_regex(query_lower, query_original) ==
    detect_intent(query_lower, search(UpperCourseCode, query_original))

\* the key of the first entry of a table whose pattern finds a match
first_match(table, text, found) ==
    IF found = {} THEN "None" ELSE table[least(found)][1]

first_key(table, text) ==
    first_match(table, text, {i \in DOMAIN table : search(table[i][2], text)})

\* ---- the name of a person
Title == Lit({<<"d","r">>, <<"d","r",".">>, <<"p","r","o","f","e","s","s","o","r">>, <<"p","r","o","f">>, <<"p","r","o","f",".">>})

\* [A-Z][a-z]+ under re.IGNORECASE
Word == AtLeast(LetterSet, 2)

\* r"(?:dr\.?|professor|prof\.?)\s+([A-Z][a-z]+(?:\s+[A-Z][a-z]+)?)"
TitledName == <<Title, Spaces(1), Word>>

\* r"([A-Z][a-z]+\s+[A-Z][a-z]+)(?:'s)?\s+(?:office|email|research|class)"
TwoWords == <<Word, Spaces(1), Word>>

OwnedThing ==
    <<Opt({<<"'","s">>}), Spaces(1), Lit({<<"o","f","f","i","c","e">>, <<"e","m","a","i","l">>, <<"r","e","s","e","a","r","c","h">>, <<"c","l","a","s","s">>})>>

\* group(1) of the first name pattern: the word after the title and, when one
\* follows, the word after it
titled_words(text, from, first_end, second) ==
    SubSeq(text, from + 1, IF second = {} THEN first_end ELSE greatest(second))

titled_second(text, from, first_end) ==
    titled_words(text, from, first_end, span(<<Spaces(1), Word>>, text, first_end))

titled_first(text, from) ==
    titled_second(text, from, greatest(span(<<Word>>, text, from)))

titled_name(text, start) ==
    titled_first(text, greatest(span(<<Title, Spaces(1)>>, text, start)))

\* group(1) of the second name pattern: the two words before the thing
two_words(text, start) ==
    SubSeq(text, start + 1,
           greatest({e \in span(TwoWords, text, start) : span(OwnedThing, text, e) # {}}))

\* the name the patterns capture, None when neither matches
captured_name(text) ==
    IF search(TitledName, text) THEN strip(titled_name(text, start_of(TitledName, text)))
    ELSE IF search(TwoWords \o OwnedThing, text)
    THEN strip(two_words(text, start_of(TwoWords \o OwnedThing, text)))
    ELSE None

faculty_entities(department, research_area, name) ==
    with(with(with(Empty, "department", department, department # "None"),
              "research_area", research_area, research_area # "None"),
         "name", name, name # None)

\* _extract_faculty_entities
_extract_faculty_entities(query) ==
    faculty_entities(first_key(department_aliases, query),
                     first_key(research_areas, query), captured_name(query))

\* ---- the entities of a course
\* r"\b([A-Z]{2,4})\s*(\d{3,4})\b" under re.IGNORECASE
CourseCode == <<B, Cls(LetterSet, 2, 4), Spaces(0), Cls(DigitSet, 3, 4), B>>

\* where group(1) of the course code ends
subject_end(text, start) ==
    greatest({e \in span(<<B, Cls(LetterSet, 2, 4)>>, text, start) :
                 span(<<Spaces(0), Cls(DigitSet, 3, 4), B>>, text, e) # {}})

\* f"{subject} {number}"
code_of(text, start, letters_end) ==
    upper(SubSeq(text, start + 1, letters_end)) \o <<" ">>
    \o SubSeq(text, greatest(span(<<Spaces(0)>>, text, letters_end)) + 1,
              greatest(span(<<Spaces(0), Cls(DigitSet, 3, 4), B>>, text, letters_end)))

\* the entities course_code and subject of a course code
code_entities(text, start, letters_end) ==
    [course_code |-> code_of(text, start, letters_end),
     subject |-> upper(SubSeq(text, start + 1, letters_end))]

code_at(text, start) == code_entities(text, start, subject_end(text, start))

\* the first of self.subject_codes the query names
named_subject(order, text, found) ==
    IF found = {} THEN Empty ELSE [subject |-> order[least(found)]]

subject_entity(order, query_lower) ==
    named_subject(order, query_lower,
                  {i \in DOMAIN order : search(<<B, Lit({lower(order[i])}), B>>, query_lower)})

\* "graduate", "undergraduate" or no level
level_of(query_lower) ==
    IF /\ search(<<B, Lit({<<"g","r","a","d","u","a","t","e">>, <<"g","r","a","d">>}), B>>, query_lower)
       /\ ~search(<<B, Lit({<<"u","n","d","e","r","g","r","a","d">>})>>, query_lower)
    THEN "graduate"
    ELSE IF search(<<B, Lit({<<"u","n","d","e","r","g","r","a","d","u","a","t","e">>, <<"u","n","d","e","r","g","r","a","d">>}), B>>, query_lower)
    THEN "undergraduate"
    ELSE "None"

\* r"\b(\d)\s*(?:credit|cr|hour)"
Credits == <<B, Cls(DigitSet, 1, 1), Spaces(0), Lit({<<"c","r","e","d","i","t">>, <<"c","r">>, <<"h","o","u","r">>})>>

\* int(c) of a digit
int(c) == (CHOOSE i \in DOMAIN Digits : Digits[i] = c) - 1

credits_of(query_lower, start) == int(query_lower[start + 1])

course_entities(subject, level, query_lower, credits) ==
    with(with(subject, "level", level, level # "None"),
         "credits", credits_of(query_lower, start_of(Credits, query_lower)), credits)

\* _extract_course_entities
_extract_course_entities(self, query) ==
    course_entities(IF search(CourseCode, query) THEN code_at(query, start_of(CourseCode, query))
                    ELSE subject_entity(self.subject_codes, lower(query)),
                    level_of(lower(query)), lower(query), search(Credits, lower(query)))

\* _detect_scope
_detect_scope(query) ==
    IF \E i \in DOMAIN complete_list_indicators : search(complete_list_indicators[i], query)
    THEN "complete_list" ELSE "top_results"

\* _classify_with_llm.  The reply is what json.loads makes of the model's
\* answer when that is a dict, and Empty when the call raises or the answer
\* is no JSON object: the except clause then returns None.
_classify_with_llm(query, reply) ==
    IF reply = Empty THEN Empty
    ELSE [method |-> "llm", original_query |-> query] @@ reply

Classification(intent, entities, scope, confidence, query) ==
    [intent |-> intent, entities |-> entities, scope |-> scope,
     confidence |-> confidence, method |-> "regex", original_query |-> query]

\* What classify did: the dict it returned or the exception it raised, the
\* result of the patterns, and the calls of the language model
Classified(returned, pattern, calls) ==
    [returned |-> returned, pattern |-> pattern, calls |-> calls]

TypeError == [raised |-> "TypeError"]

\* a comparison that lets an equal confidence replace the pattern result
at_least_as_confident(llm_confidence, intent_confidence) ==
    llm_confidence.number >= intent_confidence.number

\* llm_result.get("confidence", 0) > intent_confidence
higher_confidence(llm_confidence, intent_confidence) ==
    llm_confidence.number > intent_confidence.number

\* classify, step 4, when the language model is consulted
escalated(pattern, llm_result, llm_confidence) ==
    IF llm_result = Empty THEN Classified(pattern, pattern, <<"llm">>)
    ELSE IF "number" \notin DOMAIN llm_confidence
    THEN Classified(TypeError, pattern, <<"llm">>)
    ELSE IF higher_confidence(llm_confidence, pattern.confidence)
    THEN Classified(llm_result, pattern, <<"llm">>)
    ELSE Classified(pattern, pattern, <<"llm">>)

escalate(pattern, llm_result) ==
    escalated(pattern, llm_result, get(llm_result, "confidence", Number(0)))

\* classify, step 4
classify_step4(pattern, query, use_llm_fallback, reply) ==
    IF pattern.confidence.number < 70 /\ use_llm_fallback
    THEN escalate(pattern, _classify_with_llm(query, reply))
    ELSE Classified(pattern, pattern, << >>)

\* classify, steps 2 and 3
classify_entities(self, query, query_lower, detected, use_llm_fallback, reply) ==
    classify_step4(Classification(detected[1],
                                  IF detected[1] = "faculty_search"
                                  THEN _extract_faculty_entities(query_lower)
                                  ELSE IF detected[1] = "course_info"
                                  THEN _extract_course_entities(self, query)
                                  ELSE Empty,
                                  _detect_scope(query_lower), detected[2], query),
                   query, use_llm_fallback, reply)

classify_lower(self, query, query_lower, use_llm_fallback, reply) ==
    classify_entities(self, query, query_lower, _detect_intent_regex(query_lower, query),
                      use_llm_fallback, reply)

\* QueryClassifier.classify(query, use_llm_fallback), with the reply the
\* language model gives when it is asked
classify(self, query, use_llm_fallback, reply) ==
    classify_lower(self, query, strip(lower(query)), use_llm_fallback, reply)

\* ------------------------------------------------------------ router.py: the caps of route

\* The cap a retriever call puts on its results: a limit, or none
Limit(most) == [limited |-> TRUE, most |-> most]

Unlimited == [limited |-> FALSE]

\* FacultyRetriever.search(..., scope=scope): limit = 100 if scope ==
\* "complete_list" else 10
search_limit(scope) == Limit(IF scope = "complete_list" THEN 100 ELSE 10)

\* _route_faculty: the cap of the strategy the entities select.  search_by_name
\* keeps its default limit of 5; with no entity no retriever is called.
faculty_limit(department, research_area, name, scope) ==
    IF name # None /\ department = "None" /\ research_area = "None" THEN Limit(5)
    ELSE IF department # "None"
    THEN IF research_area # "None" THEN search_limit(scope)
         ELSE IF scope = "complete_list" THEN Unlimited ELSE Limit(10)
    ELSE IF research_area # "None" THEN search_limit(scope)
    ELSE Unlimited

\* the limit of _route_faculty, _route_courses, _route_dining, _route_housing,
\* _route_transit and _route_tuition; _route_vector_fallback has none
route_limit(intent, entities, scope) ==
    IF intent = "faculty_search"
    THEN faculty_limit(get(entities, "department", "None"),
                       get(entities, "research_area", "None"),
                       get(entities, "name", None), scope)
    ELSE IF intent \in {"course_info", "housing_info"}
    THEN Limit(IF scope = "complete_list" THEN 50 ELSE 10)
    ELSE IF intent \in {"dining_info", "transit_info"}
    THEN Limit(IF scope = "complete_list" THEN 20 ELSE 5)
    ELSE IF intent = "financial_info"
    THEN Limit(IF scope = "complete_list" THEN 30 ELSE 10)
    ELSE Unlimited

\* What route did up to the choice of the retriever
Routed(processed_query, classified, intent, entities, scope) ==
    [processed_query |-> processed_query, classified |-> classified,
     raised |-> "raised" \in DOMAIN classified.returned,
     intent |-> intent, entities |-> entities, scope |-> scope,
     limit |-> route_limit(intent, entities, scope)]

\* route, step 1: intent, entities and scope with their defaults
route_classified(processed_query, classified) ==
    Routed(processed_query, classified, get(classified.returned, "intent", "general"),
           get(classified.returned, "entities", Empty),
           get(classified.returned, "scope", "top_results"))

route_processed(self, processed_query, reply) ==
    route_classified(processed_query, classify(self, processed_query, TRUE, reply))

route_prepared(self, query, processed) ==
    IF processed = << >> THEN query ELSE processed

\* route, steps 0 and 1, and the limit step 2 applies
route_steps(self, query, reply) ==
    route_processed(self, route_prepared(self, query, preprocess({}, query).processed), reply)

\* ------------------------------------------------------------ the classifier on its own

\* the closed set of intents
Intents ==
    {intent_patterns[i][1] : i \in DOMAIN intent_patterns} \cup {"general"}

RECURSIVE reversed(_)
reversed(s) == IF s = << >> THEN << >> ELSE Append(reversed(Tail(s)), Head(s))

\* the orders in which a process may walk the set self.subject_codes
SubjectOrders == {subject_codes, reversed(subject_codes)}

BaseQueries ==
    {<<"w","h","o"," ","t","e","a","c","h","e","s"," ","m","a","c","h","i","n","e"," ","l","e","a","r","n","i","n","g">>, <<"w","h","o"," ","t","e","a","c","h","e","s"," ","M","L">>, <<"w","h","o"," ","t","e","a","c","h","e","s"," ","c","a","l","c","u","l","u","s">>, <<"E","E","C","S"," ","p","r","o","f","e","s","s","o","r","s">>,
     <<"e","e","c","s"," ","p","r","o","f","e","s","s","o","r","s">>, <<"M","L"," ","r","e","s","e","a","r","c","h","e","r","s"," ","i","n"," ","b","u","s","i","n","e","s","s"," ","s","c","h","o","o","l">>, <<"E","E","C","S"," ","1","6","8">>,
     <<"m","a","c","h","i","n","e"," ","l","e","a","r","n","i","n","g"," ","c","o","u","r","s","e","s">>, <<"g","r","a","d","u","a","t","e"," ","E","E","C","S"," ","c","o","u","r","s","e","s">>, <<"3"," ","c","r","e","d","i","t"," ","m","a","t","h"," ","c","o","u","r","s","e","s">>,
     <<"w","h","e","r","e"," ","c","a","n"," ","I"," ","e","a","t"," ","o","n"," ","c","a","m","p","u","s">>, <<"b","u","s"," ","r","o","u","t","e","s">>, <<"s","c","h","o","l","a","r","s","h","i","p"," ","h","a","l","l","s">>,
     <<"h","o","w"," ","m","u","c","h"," ","i","s"," ","t","u","i","t","i","o","n">>, <<"t","e","l","l"," ","m","e"," ","a"," ","j","o","k","e">>, <<"h","e","l","l","o">>, <<"l","i","b","r","a","r","y"," ","h","o","u","r","s">>,
     <<"3","0","0"," ","l","e","v","e","l"," ","c","o","u","r","s","e","s">>, <<"f","a","c","u","l","t","y"," ","r","e","s","e","a","r","c","h">>, <<"e","e","c","s"," ","r","e","s","e","a","r","c","h"," ","p","r","o","f","e","s","s","o","r","s">>,
     <<"p","r","o","f","e","s","s","o","r"," ","s","m","i","t","h"," ","o","f","f","i","c","e">>, <<"r","o","b","o","t","i","c","s"," ","r","e","s","e","a","r","c","h","e","r","s">>, <<"t","e","a","c","h"," ","m","e"," ","c","s">>,
     <<"p","r","o","f","e","s","s","o","r","s"," ","d","o","i","n","g"," ","m","a","c","h","i","n","e"," ","l","e","a","r","n","i","n","g"," ","i","n"," ","e","e","c","s">>, <<"p","h","y","s","i","c","s"," ","f","a","c","u","l","t","y">>,
     <<"w","h","o"," ","d","o","e","s"," ","r","e","s","e","a","r","c","h"," ","i","n"," ","r","o","b","o","t","i","c","s">>, <<"e","v","e","r","y"," ","p","r","o","f","e","s","s","o","r"," ","i","n"," ","p","h","y","s","i","c","s">>, << >>}

\* the wants-everything word in front of a query
with_all(query) == <<"a","l","l"," ">> \o query

ClassifyQueries == BaseQueries \cup {with_all(query) : query \in BaseQueries}

\* What the language model may answer: nothing usable (the call raises, or
\* the answer is no JSON object), or a JSON object of its choice
LlmReplies ==
    {Empty,
     [intent |-> "general", entities |-> Empty, scope |-> "top_results",
      confidence |-> Number(50)],
     [intent |-> "smalltalk", entities |-> Empty, scope |-> "top_results",
      confidence |-> Number(90)],
     [intent |-> "dining_info", entities |-> Empty, scope |-> "top_results",
      confidence |-> Number(30)],
     [intent |-> "faculty_search", entities |-> [department |-> "eecs"],
      scope |-> "complete_list", confidence |-> Number(20)],
     [intent |-> "course_info", entities |-> Empty, scope |-> "top_results"],
     [intent |-> "general", entities |-> Empty, scope |-> "top_results",
      confidence |-> Text(<<"h","i","g","h">>)],
     [confidence |-> Number(80)]}

\* A QueryClassifier and a call of it
ClassifyInput(order, query, use_llm_fallback, reply) ==
    [op |-> "input", classifier |-> NewClassifier(order), query |-> query,
     use_llm_fallback |-> use_llm_fallback, reply |-> reply]

InitClassify ==
    /\ bot = None
    /\ _smart_cache = None
    /\ clock = 0
    /\ conversations = << >>
    /\ \E order \in SubjectOrders, query \in ClassifyQueries,
          use_llm_fallback \in BOOLEAN, reply \in LlmReplies :
          done = ClassifyInput(order, query, use_llm_fallback, reply)
    /\ rate_limiter = None

\* classifier.classify(query, use_llm_fallback)
Classify ==
    /\ done.op = "input"
    /\ done' = [op |-> "classify", classifier |-> done.classifier, query |-> done.query,
                use_llm_fallback |-> done.use_llm_fallback, reply |-> done.reply,
                classified |-> classify(done.classifier, done.query,
                                        done.use_llm_fallback, done.reply)]
    /\ UNCHANGED <<bot, _smart_cache, clock, conversations>>
    /\ UNCHANGED rate_limiter

\* router.route(query), which classifies with the fallback allowed
Route ==
    /\ done.op = "input"
    /\ done.use_llm_fallback
    /\ done' = [op |-> "route", classifier |-> done.classifier, query |-> done.query,
                use_llm_fallback |-> TRUE, reply |-> done.reply,
                routed |-> route_steps(done.classifier, done.query, done.reply)]
    /\ UNCHANGED <<bot, _smart_cache, clock, conversations>>
    /\ UNCHANGED rate_limiter

NextClassify == Classify \/ Route

SpecClassify == InitClassify /\ [][NextClassify]_vars

\* ------------------------------------------------------------ the intent detection on its own

\* What a query may say, each piece matching patterns of its own
Pieces ==
    <<<<"w","h","e","r","e"," ","t","o"," ","l","i","v","e">>, <<"c","o","r","b","i","n">>, <<"s","c","h","o","l","a","r","s","h","i","p"," ","h","a","l","l">>, <<"h","o","u","s","i","n","g">>,
      <<"p","r","o","f","e","s","s","o","r">>, <<"E","E","C","S"," ","1","6","8">>, <<"c","o","u","r","s","e","s">>>>

\* " ".join of the pieces chosen, in their order
RECURSIVE pieces_joined(_, _, _)
pieces_joined(chosen, i, acc) ==
    IF i > Len(Pieces) \/ Len(acc) < 0 THEN acc
    ELSE pieces_joined(chosen, i + 1,
                       IF i \notin chosen THEN acc
                       ELSE IF acc = << >> THEN Pieces[i]
                       ELSE join2(acc, Pieces[i]))

IntentQueries == {pieces_joined(chosen, 1, << >>) : chosen \in SUBSET DOMAIN Pieces}

InitIntent ==
    /\ bot = None
    /\ _smart_cache = None
    /\ clock = 0
    /\ conversations = << >>
    /\ \E query \in IntentQueries : done = [op |-> "input", query |-> query]
    /\ rate_limiter = None

\* self._detect_intent_regex(query.lower(), query)
DetectIntent ==
    /\ done.op = "input"
    /\ done' = [op |-> "intent", query |-> done.query,
                detected |-> _detect_intent_regex(lower(done.query), done.query)]
    /\ UNCHANGED <<bot, _smart_cache, clock, conversations>>
    /\ UNCHANGED rate_limiter

NextIntent == DetectIntent

SpecIntent == InitIntent /\ [][NextIntent]_vars

\* ------------------------------------------------------------ router.py: QueryRouter

\* What the formatters of the retrievers return: a context is the sequence of
\* its lines, the empty sequence the empty string.
NoContext == << >>

\* FacultyRetriever.format_for_context over faculty of two departments
MixedFaculty ==
    <<<<"=","=","="," ","F","A","C","U","L","T","Y"," ","I","N","F","O","R","M","A","T","I","O","N"," ","=","=","=">>,
      << >>, <<"P","r","o","f","e","s","s","o","r",":"," ","A","d","a">>,
      <<"D","e","p","a","r","t","m","e","n","t",":"," ","E","l","e","c","t","r","i","c","a","l"," ","E","n","g","i","n","e","e","r","i","n","g"," ","a","n","d"," ","C","o","m","p","u","t","e","r"," ","S","c","i","e","n","c","e">>,
      <<"E","m","a","i","l",":"," ","N","/","A">>, <<"R","e","s","e","a","r","c","h",":"," ","r","o","b","o","t","i","c","s">>,
      << >>, <<"P","r","o","f","e","s","s","o","r",":"," ","B","o">>, <<"D","e","p","a","r","t","m","e","n","t",":"," ","S","c","h","o","o","l"," ","o","f"," ","B","u","s","i","n","e","s","s">>,
      <<"E","m","a","i","l",":"," ","N","/","A">>, <<"R","e","s","e","a","r","c","h",":"," ","r","o","b","o","t","i","c","s"," ","i","n"," ","s","u","p","p","l","y"," ","c","h","a","i","n","s">>>>

\* FacultyRetriever.format_for_context over faculty of one department
EecsFaculty == SubSeq(MixedFaculty, 1, 6)

\* CourseRetriever.format_for_context
CourseContext == <<<<"=","=","="," ","C","O","U","R","S","E"," ","I","N","F","O","R","M","A","T","I","O","N"," ","=","=","=">>, << >>, <<"C","o","u","r","s","e",":"," ","E","E","C","S"," ","7","0","0"," ","-"," ","T","o","p","i","c","s">>>>

\* CampusRetriever.format_dining_context and its three siblings
CampusContext == <<<<"=","=","="," ","C","A","M","P","U","S"," ","I","N","F","O","R","M","A","T","I","O","N"," ","=","=","=">>>>

\* Retriever.smart_search: the sections joined by blank lines, the lines of a
\* professor indented as search_faculty_enhanced writes them, the stored
\* document of the professor after "Research:" with its own lines
VectorContext ==
    <<<<"=","=","="," ","C","O","U","R","S","E"," ","I","N","F","O","R","M","A","T","I","O","N"," ","=","=","=">>, << >>, <<"C","o","u","r","s","e",":"," ","E","E","C","S"," ","6","9","0">>, << >>,
      <<"=","=","="," ","F","A","C","U","L","T","Y"," ","I","N","F","O","R","M","A","T","I","O","N"," ","=","=","=">>, << >>,
      <<"P","r","o","f","e","s","s","o","r",":"," ","C","y">>, <<" "," "," "," "," "," "," "," "," "," "," "," "," "," "," "," ","D","e","p","a","r","t","m","e","n","t",":"," ","D","e","p","a","r","t","m","e","n","t"," ","o","f"," ","P","h","y","s","i","c","s"," ","a","n","d"," ","A","s","t","r","o","n","o","m","y">>,
      <<" "," "," "," "," "," "," "," "," "," "," "," "," "," "," "," ","R","e","s","e","a","r","c","h",":"," ","P","r","o","f","e","s","s","o","r"," ","C","y">>,
      <<"D","e","p","a","r","t","m","e","n","t",":"," ","D","e","p","a","r","t","m","e","n","t"," ","o","f"," ","P","h","y","s","i","c","s"," ","a","n","d"," ","A","s","t","r","o","n","o","m","y">>,
      <<"R","e","s","e","a","r","c","h"," ","I","n","t","e","r","e","s","t","s",":"," ","r","o","b","o","t","i","c","s">>, << >>,
      <<"P","r","o","f","e","s","s","o","r",":"," ","D","i">>,
      <<" "," "," "," "," "," "," "," "," "," "," "," "," "," "," "," ","D","e","p","a","r","t","m","e","n","t",":"," ","E","l","e","c","t","r","i","c","a","l"," ","E","n","g","i","n","e","e","r","i","n","g"," ","a","n","d"," ","C","o","m","p","u","t","e","r"," ","S","c","i","e","n","c","e">>,
      <<" "," "," "," "," "," "," "," "," "," "," "," "," "," "," "," ","R","e","s","e","a","r","c","h",":"," ","P","r","o","f","e","s","s","o","r"," ","D","i">>,
      <<"D","e","p","a","r","t","m","e","n","t",":"," ","E","l","e","c","t","r","i","c","a","l"," ","E","n","g","i","n","e","e","r","i","n","g"," ","a","n","d"," ","C","o","m","p","u","t","e","r"," ","S","c","i","e","n","c","e">>,
      <<"R","e","s","e","a","r","c","h"," ","I","n","t","e","r","e","s","t","s",":"," ","m","a","c","h","i","n","e"," ","l","e","a","r","n","i","n","g">>>>

\* QueryRouter.__init__: the vector retriever is not loaded yet
NewRouter == [classifier |-> NewClassifier(subject_codes), _vector_retriever |-> "None"]

\* What route gave back and did: the router after the call, the dict
\* returned or the exception raised, the classification (routed) and the
\* calls of the retrievers
Returned(router, results, context, source, routed, calls) ==
    [router |-> router, raised |-> FALSE, results |-> results, context |-> context,
     source |-> source, result_count |-> results, routed |-> routed, calls |-> calls]

Raised(router, routed, calls) ==
    [router |-> router, raised |-> TRUE, results |-> 0, context |-> NoContext,
     source |-> "exception", result_count |-> 0, routed |-> routed, calls |-> calls]

_empty_result(router, routed) == Returned(router, 0, NoContext, "none", routed, << >>)

\* The records a retriever call gives back: one when the data hold a match
\* for that call, else none
records(renv, call) == IF call \in renv.hits THEN 1 ELSE 0

\* the vector_retriever property, then smart_search.  renv.vector tells what
\* the vector store does: its construction raises, its search raises, or it
\* answers with nothing, with a context only, or with records of the intent.
_route_vector_fallback(router, query, routed, renv, calls) ==
    IF router._vector_retriever = "None" /\ renv.vector = "init_raises"
    THEN Raised(router, routed, Append(calls, "Retriever"))
    ELSE IF renv.vector = "search_raises"
    THEN Raised([router EXCEPT !._vector_retriever = "Retriever"], routed,
                Append(calls, "smart_search"))
    ELSE Returned([router EXCEPT !._vector_retriever = "Retriever"],
                  IF renv.vector = "records" THEN 1 ELSE 0,
                  IF renv.vector \in {"records", "context"} THEN VectorContext ELSE NoContext,
                  "vector_retriever", routed, Append(calls, "smart_search"))

\* a cascade that asks the vector store whatever the retriever found
fallback_always(router, query, routed, use_vector_fallback, renv, calls, results, context, source) ==
    IF use_vector_fallback
    THEN _route_vector_fallback(router, query, routed, renv, calls)
    ELSE Returned(router, results, IF results = 0 THEN NoContext ELSE context,
                  source, routed, calls)

\* the result of a specialised retriever, or the fallback when it found nothing
retrieved(router, query, routed, use_vector_fallback, renv, calls, results, context, source) ==
    IF results = 0 /\ use_vector_fallback
    THEN _route_vector_fallback(router, query, routed, renv, calls)
    ELSE Returned(router, results, IF results = 0 THEN NoContext ELSE context,
                  source, routed, calls)

\* the strategy _route_faculty takes
faculty_call(department, research_area, name) ==
    IF name # None /\ department = "None" /\ research_area = "None" THEN "search_by_name"
    ELSE IF department # "None"
    THEN IF research_area # "None" THEN "search" ELSE "get_department_faculty"
    ELSE IF research_area # "None" THEN "search"
    ELSE "none"

faculty_called(router, query, routed, use_vector_fallback, renv, call) ==
    retrieved(router, query, routed, use_vector_fallback, renv,
              IF call = "none" THEN << >> ELSE <<call>>,
              IF call = "none" THEN 0 ELSE records(renv, call),
              renv.faculty, "faculty_retriever")

_route_faculty(router, query, routed, use_vector_fallback, renv) ==
    faculty_called(router, query, routed, use_vector_fallback, renv,
                   faculty_call(get(routed.entities, "department", "None"),
                                get(routed.entities, "research_area", "None"),
                                get(routed.entities, "name", None)))

\* the strategy _route_courses takes first
course_call(entities) ==
    IF "course_code" \in DOMAIN entities THEN "get_course"
    ELSE IF "subject" \in DOMAIN entities THEN "search_by_subject"
    ELSE IF "level" \in DOMAIN entities THEN "search_by_level"
    ELSE "none"

\* strategy 4, the general search, when the first strategy found nothing
course_searched(router, query, routed, use_vector_fallback, renv, calls, results) ==
    retrieved(router, query, routed, use_vector_fallback, renv,
              IF results = 0 THEN Append(calls, "search") ELSE calls,
              IF results = 0 THEN records(renv, "search") ELSE results,
              CourseContext, "course_retriever")

\* the records of the first strategy, after the level filter over a subject
course_found(renv, entities, call) ==
    IF call = "none" THEN 0
    ELSE IF call = "search_by_subject" /\ "level" \in DOMAIN entities
            /\ records(renv, call) > 0
    THEN records(renv, "level_filter")
    ELSE records(renv, call)

course_called(router, query, routed, use_vector_fallback, renv, call) ==
    course_searched(router, query, routed, use_vector_fallback, renv,
                    IF call = "none" THEN << >> ELSE <<call>>,
                    course_found(renv, routed.entities, call))

_route_courses(router, query, routed, use_vector_fallback, renv) ==
    course_called(router, query, routed, use_vector_fallback, renv,
                  course_call(routed.entities))

\* _route_dining, _route_housing and _route_tuition: one call of the campus
\* retriever
campus_called(router, routed, renv, call) ==
    Returned(router, records(renv, call),
             IF records(renv, call) = 0 THEN NoContext ELSE CampusContext,
             "campus_retriever", routed, <<call>>)

_route_transit(router, query, routed, renv) ==
    campus_called(router, routed, renv,
                  IF contains(<<"k","u">>, lower(query)) \/ contains(<<"c","a","m","p","u","s">>, lower(query))
                  THEN "get_ku_transit" ELSE "search_transit")

\* route, step 2
route_dispatch(router, query, use_vector_fallback, renv, routed) ==
    IF routed.raised THEN Raised(router, routed, << >>)
    ELSE IF routed.intent = "faculty_search"
    THEN _route_faculty(router, query, routed, use_vector_fallback, renv)
    ELSE IF routed.intent = "course_info"
    THEN _route_courses(router, query, routed, use_vector_fallback, renv)
    ELSE IF routed.intent = "dining_info"
    THEN campus_called(router, routed, renv, "search_dining")
    ELSE IF routed.intent = "housing_info"
    THEN campus_called(router, routed, renv, "search_housing")
    ELSE IF routed.intent = "transit_info" THEN _route_transit(router, query, routed, renv)
    ELSE IF routed.intent = "financial_info"
    THEN campus_called(router, routed, renv, "search_tuition")
    ELSE IF use_vector_fallback
    THEN _route_vector_fallback(router, query, routed, renv, << >>)
    ELSE _empty_result(router, routed)

\* QueryRouter.route.  renv holds what the collaborators do during the call:
\* the answer of the language model to the classifier, the retriever calls
\* that find records, the faculty these format, and the vector store.
route(router, query, use_vector_fallback, renv) ==
    route_dispatch(router, query, use_vector_fallback, renv,
                   route_steps(router.classifier, query, renv.reply))

\* an environment of route
RouteEnv(reply, finding, faculty, vector) ==
    [reply |-> reply, hits |-> finding, faculty |-> faculty, vector |-> vector]

\* ------------------------------------------------------------ the router on its own

\* What the callers of route ask for
RouteQueries ==
    {<<"E","E","C","S"," ","1","6","8">>, <<"p","r","o","f","e","s","s","o","r"," ","s","m","i","t","h"," ","o","f","f","i","c","e">>, <<"r","o","b","o","t","i","c","s"," ","f","a","c","u","l","t","y">>, <<"e","e","c","s"," ","p","r","o","f","e","s","s","o","r","s">>,
     <<"g","r","a","d","u","a","t","e"," ","E","E","C","S"," ","c","o","u","r","s","e","s">>, <<"3","0","0"," ","l","e","v","e","l"," ","c","o","u","r","s","e","s">>, <<"w","h","e","r","e"," ","c","a","n"," ","I"," ","e","a","t"," ","o","n"," ","c","a","m","p","u","s">>,
     <<"s","c","h","o","l","a","r","s","h","i","p"," ","h","a","l","l","s">>, <<"b","u","s"," ","r","o","u","t","e","s">>, <<"h","o","w"," ","m","u","c","h"," ","i","s"," ","t","u","i","t","i","o","n">>, <<"t","e","l","l"," ","m","e"," ","a"," ","j","o","k","e">>}

\* every call of a retriever
RetrieverCalls ==
    {"search_by_name", "search", "get_department_faculty", "get_course",
     "search_by_subject", "level_filter", "search_by_level", "search_dining",
     "search_housing", "get_ku_transit", "search_transit", "search_tuition"}

\* What the collaborators do during a call: the retrievers find records for
\* every call, for the free-text search only, or for none; the vector store
\* answers, or raises
RouteEnvs ==
    {RouteEnv(Empty, finding, MixedFaculty, vector) :
        finding \in {RetrieverCalls, {"search", "search_by_subject"}, {}},
        vector \in {"empty", "context", "records", "init_raises", "search_raises"}}

\* a router whose vector retriever a former call has loaded
LoadedRouter == [NewRouter EXCEPT !._vector_retriever = "Retriever"]

\* A router and a call of route
RouteInput(router, query, use_vector_fallback, renv) ==
    [op |-> "input", router |-> router, query |-> query,
     use_vector_fallback |-> use_vector_fallback, renv |-> renv]

InitRoute ==
    /\ bot = None
    /\ _smart_cache = None
    /\ clock = 0
    /\ conversations = << >>
    /\ \E router \in {NewRouter, LoadedRouter}, query \in RouteQueries,
          use_vector_fallback \in BOOLEAN, renv \in RouteEnvs :
          done = RouteInput(router, query, use_vector_fallback, renv)
    /\ rate_limiter = None

\* router.route(query, use_vector_fallback)
RouteQuery ==
    /\ done.op = "input"
    /\ done' = [op |-> "routed", query |-> done.query,
                use_vector_fallback |-> done.use_vector_fallback, renv |-> done.renv,
                r |-> route(done.router, done.query, done.use_vector_fallback, done.renv)]
    /\ UNCHANGED <<bot, _smart_cache, clock, conversations>>
    /\ UNCHANGED rate_limiter

NextRoute == RouteQuery

SpecRoute == InitRoute /\ [][NextRoute]_vars

\* ------------------------------------------------------------ chat.py: SmartCourseCache

\* _smart_cache = SmartCourseCache(data_ttl=60, response_ttl=300)
DATA_TTL == 60

RESPONSE_TTL == 300

\* SmartCourseCache.__init__: data_cache and response_cache, both empty.  A
\* cache is a function from the keys it holds to its entries.
EmptyCache == [data_cache |-> << >>, response_cache |-> << >>]

\* re.sub(r"[^a-z0-9]", "", course.lower())
_normalize_course(course) ==
    SelectSeq(lower(course), LAMBDA c : c \in LowerSet \/ isdigit_char(c))

\* str.lower() of a career level
career_lower(career) ==
    IF career = "Graduate" THEN "graduate"
    ELSE IF career = "Undergraduate" THEN "undergraduate"
    ELSE career

_make_data_key(course, career) == <<_normalize_course(course), career_lower(career)>>

_make_response_key(course, career, query_type) ==
    <<_normalize_course(course), career_lower(career), query_type>>

_extract_query_type(query) ==
    IF contains_any(<<<<"w","h","o"," ","t","e","a","c","h">>, <<"i","n","s","t","r","u","c","t","o","r">>, <<"p","r","o","f","e","s","s","o","r">>, <<"t","a","u","g","h","t"," ","b","y">>>>,
                    lower(query))
    THEN "instructor"
    ELSE IF contains_any(<<<<"s","e","a","t">>, <<"e","n","r","o","l","l">>, <<"f","u","l","l">>, <<"o","p","e","n">>, <<"a","v","a","i","l","a","b","l","e">>,
                           <<"s","p","a","c","e">>>>, lower(query))
    THEN "seats"
    ELSE IF contains_any(<<<<"w","h","e","n">>, <<"t","i","m","e">>, <<"s","c","h","e","d","u","l","e">>, <<"m","e","e","t">>>>, lower(query))
    THEN "schedule"
    ELSE IF contains_any(<<<<"w","h","e","r","e">>, <<"l","o","c","a","t","i","o","n">>, <<"r","o","o","m">>, <<"b","u","i","l","d","i","n","g">>>>, lower(query))
    THEN "location"
    ELSE "general"

\* del d[k]
without(d, k) == [x \in (DOMAIN d) \ {k} |-> d[x]]

\* d[k] = v
put(d, k, v) == [x \in (DOMAIN d) \cup {k} |-> IF x = k THEN v ELSE d[x]]

\* What a get of the cache gives back: the value (hit) or None, and the cache
\* after the call, which has dropped the entry when it had expired
Got(value, hit, cache) == [value |-> value, hit |-> hit, cache |-> cache]

NoData == [success |-> FALSE, total_sections |-> 0, career |-> "absent", query |-> None]

\* a get that serves an entry at the age of the TTL too
data_at_ttl(cache, key, now) ==
    IF key \notin DOMAIN cache.data_cache THEN Got(NoData, FALSE, cache)
    ELSE IF now - cache.data_cache[key].timestamp <= DATA_TTL
    THEN Got(cache.data_cache[key].data, TRUE, cache)
    ELSE Got(NoData, FALSE, [cache EXCEPT !.data_cache = without(@, key)])

data_at(cache, key, now) ==
    IF key \notin DOMAIN cache.data_cache THEN Got(NoData, FALSE, cache)
    ELSE IF now - cache.data_cache[key].timestamp < DATA_TTL
    THEN Got(cache.data_cache[key].data, TRUE, cache)
    ELSE Got(NoData, FALSE, [cache EXCEPT !.data_cache = without(@, key)])

get_data(cache, course, career, now) ==
    data_at(cache, _make_data_key(course, career), now)

set_data(cache, course, career, data, now) ==
    [cache EXCEPT !.data_cache =
        put(@, _make_data_key(course, career), [data |-> data, timestamp |-> now])]

NoResponse == [text |-> "none", course |-> None, career |-> "absent"]

response_at(cache, key, now) ==
    IF key \notin DOMAIN cache.response_cache THEN Got(NoResponse, FALSE, cache)
    ELSE IF now - cache.response_cache[key].timestamp < RESPONSE_TTL
    THEN Got(cache.response_cache[key].response, TRUE, cache)
    ELSE Got(NoResponse, FALSE, [cache EXCEPT !.response_cache = without(@, key)])

get_response(cache, course, career, query, now) ==
    response_at(cache, _make_response_key(course, career, _extract_query_type(query)), now)

set_response(cache, course, career, query, response, now) ==
    [cache EXCEPT !.response_cache =
        put(@, _make_response_key(course, career, _extract_query_type(query)),
            [response |-> response, query_type |-> _extract_query_type(query),
             timestamp |-> now])]

\* SmartCourseCache.clear
clear(cache) == EmptyCache

\* ------------------------------------- chat.py: topic-to-course resolver

\* The table in its source order: <<topic, codes>>
TOPIC_TO_COURSE_FALLBACK == <<
    <<<<"m","a","c","h","i","n","e"," ","l","e","a","r","n","i","n","g">>, <<<<"E","E","C","S"," ","6","5","8">>, <<"E","E","C","S"," ","8","3","6">>>>>>,
    <<<<"d","e","e","p"," ","l","e","a","r","n","i","n","g">>, <<<<"E","E","C","S"," ","7","3","8">>, <<"E","E","C","S"," ","7","0","0">>>>>>,
    <<<<"r","e","i","n","f","o","r","c","e","m","e","n","t"," ","l","e","a","r","n","i","n","g">>, <<<<"E","E","C","S"," ","7","0","0">>>>>>,
    <<<<"d","e","e","p"," ","r","e","i","n","f","o","r","c","e","m","e","n","t"," ","l","e","a","r","n","i","n","g">>, <<<<"E","E","C","S"," ","7","0","0">>>>>>,
    <<<<"a","r","t","i","f","i","c","i","a","l"," ","i","n","t","e","l","l","i","g","e","n","c","e">>, <<<<"E","E","C","S"," ","6","4","9">>, <<"E","E","C","S"," ","7","3","8">>>>>>,
    <<<<"n","e","u","r","a","l"," ","n","e","t","w","o","r","k">>, <<<<"E","E","C","S"," ","7","3","8">>, <<"E","E","C","S"," ","7","0","0">>>>>>,
    <<<<"n","e","u","r","a","l"," ","n","e","t","w","o","r","k","s">>, <<<<"E","E","C","S"," ","7","3","8">>, <<"E","E","C","S"," ","7","0","0">>>>>>,
    <<<<"c","o","m","p","u","t","e","r"," ","v","i","s","i","o","n">>, <<<<"E","E","C","S"," ","8","4","1">>>>>>,
    <<<<"n","a","t","u","r","a","l"," ","l","a","n","g","u","a","g","e"," ","p","r","o","c","e","s","s","i","n","g">>, <<<<"E","E","C","S"," ","7","3","1">>>>>>,
    <<<<"n","l","p">>, <<<<"E","E","C","S"," ","7","3","1">>>>>>,
    <<<<"d","a","t","a"," ","s","c","i","e","n","c","e">>, <<<<"E","E","C","S"," ","7","3","1">>, <<"E","E","C","S"," ","6","5","8">>>>>>,
    <<<<"r","o","b","o","t","i","c","s">>, <<<<"E","E","C","S"," ","6","9","0">>, <<"E","E","C","S"," ","7","0","0">>>>>>,
    <<<<"m","o","b","i","l","e"," ","r","o","b","o","t","i","c","s">>, <<<<"E","E","C","S"," ","7","0","0">>>>>>,
    <<<<"a","l","g","o","r","i","t","h","m","s">>, <<<<"E","E","C","S"," ","6","6","0">>, <<"E","E","C","S"," ","7","0","0">>>>>>,
    <<<<"h","i","g","h"," ","p","e","r","f","o","r","m","a","n","c","e"," ","c","o","m","p","u","t","i","n","g">>, <<<<"E","E","C","S"," ","7","0","0">>>>>>,
    <<<<"h","p","c">>, <<<<"E","E","C","S"," ","7","0","0">>>>>>,
    <<<<"c","y","b","e","r"," ","p","h","y","s","i","c","a","l"," ","s","y","s","t","e","m","s">>, <<<<"E","E","C","S"," ","7","0","0">>>>>>,
    <<<<"p","r","o","g","r","a","m"," ","s","y","n","t","h","e","s","i","s">>, <<<<"E","E","C","S"," ","7","0","0">>>>>>,
    <<<<"s","o","f","t","w","a","r","e"," ","e","n","g","i","n","e","e","r","i","n","g">>, <<<<"E","E","C","S"," ","4","4","8">>>>>>,
    <<<<"d","a","t","a","b","a","s","e">>, <<<<"E","E","C","S"," ","6","4","7">>>>>>,
    <<<<"d","a","t","a","b","a","s","e","s">>, <<<<"E","E","C","S"," ","6","4","7">>>>>>,
    <<<<"o","p","e","r","a","t","i","n","g"," ","s","y","s","t","e","m","s">>, <<<<"E","E","C","S"," ","6","7","8">>>>>>,
    <<<<"c","o","m","p","u","t","e","r"," ","n","e","t","w","o","r","k","s">>, <<<<"E","E","C","S"," ","7","8","0">>>>>>,
    <<<<"c","y","b","e","r","s","e","c","u","r","i","t","y">>, <<<<"E","E","C","S"," ","7","1","0">>>>>>,
    <<<<"s","e","c","u","r","i","t","y">>, <<<<"E","E","C","S"," ","7","1","0">>>>>>,
    <<<<"s","u","p","p","l","y"," ","c","h","a","i","n">>, <<<<"B","S","A","N"," ","4","6","0">>, <<"S","C","M"," ","4","0","1">>>>>>,
    <<<<"b","u","s","i","n","e","s","s"," ","a","n","a","l","y","t","i","c","s">>, <<<<"B","S","A","N"," ","4","4","0">>, <<"B","S","A","N"," ","4","6","0">>>>>>,
    <<<<"d","a","t","a"," ","a","n","a","l","y","t","i","c","s">>, <<<<"B","S","A","N"," ","4","4","0">>>>>> >>

\* the index of topic in the table, 0 when it is no key
topic_index(topic) ==
    IF \E i \in DOMAIN TOPIC_TO_COURSE_FALLBACK : TOPIC_TO_COURSE_FALLBACK[i][1] = topic
    THEN CHOOSE i \in DOMAIN TOPIC_TO_COURSE_FALLBACK : TOPIC_TO_COURSE_FALLBACK[i][1] = topic
    ELSE 0

\* courses appended to found, all of them
append_all(found, courses) == found \o courses

\* courses appended to found, skipping those already in it
RECURSIVE append_new(_, _)
append_new(found, courses) ==
    IF courses = << >> THEN found
    ELSE append_new(IF in_list(Head(courses), found) THEN found
                    ELSE Append(found, Head(courses)),
                    Tail(courses))

\* the partial-match loop over the table, from entry i on; found holds codes
\* of the entries before i, of which none has more than 2
RECURSIVE partial_matches(_, _, _)
partial_matches(topic_lower, i, found) ==
    IF i > Len(TOPIC_TO_COURSE_FALLBACK) \/ Len(found) > 2 * i THEN found
    ELSE partial_matches(topic_lower, i + 1,
             IF \/ contains(TOPIC_TO_COURSE_FALLBACK[i][1], topic_lower)
                \/ contains(topic_lower, TOPIC_TO_COURSE_FALLBACK[i][1])
             THEN append_new(found, TOPIC_TO_COURSE_FALLBACK[i][2])
             ELSE found)

cs_keywords == <<
    <<"m","a","c","h","i","n","e"," ","l","e","a","r","n","i","n","g">>, <<"d","e","e","p"," ","l","e","a","r","n","i","n","g">>, <<"a","r","t","i","f","i","c","i","a","l"," ","i","n","t","e","l","l","i","g","e","n","c","e">>, <<"a","i">>,
    <<"n","e","u","r","a","l"," ","n","e","t","w","o","r","k">>, <<"c","o","m","p","u","t","e","r"," ","v","i","s","i","o","n">>, <<"n","l","p">>, <<"n","a","t","u","r","a","l"," ","l","a","n","g","u","a","g","e">>,
    <<"d","a","t","a"," ","s","c","i","e","n","c","e">>, <<"r","o","b","o","t","i","c","s">>, <<"a","l","g","o","r","i","t","h","m">>, <<"p","r","o","g","r","a","m","m","i","n","g">>, <<"s","o","f","t","w","a","r","e">>,
    <<"d","a","t","a","b","a","s","e">>, <<"n","e","t","w","o","r","k">>, <<"s","e","c","u","r","i","t","y">>, <<"c","y","b","e","r">>, <<"r","e","i","n","f","o","r","c","e","m","e","n","t"," ","l","e","a","r","n","i","n","g">> >>

business_keywords == <<<<"s","u","p","p","l","y"," ","c","h","a","i","n">>, <<"a","n","a","l","y","t","i","c","s">>, <<"b","u","s","i","n","e","s","s">>, <<"f","i","n","a","n","c","e">>,
    <<"m","a","r","k","e","t","i","n","g">>, <<"m","a","n","a","g","e","m","e","n","t">>>>

math_keywords == <<<<"c","a","l","c","u","l","u","s">>, <<"s","t","a","t","i","s","t","i","c","s">>, <<"p","r","o","b","a","b","i","l","i","t","y">>, <<"l","i","n","e","a","r"," ","a","l","g","e","b","r","a">>,
    <<"d","i","f","f","e","r","e","n","t","i","a","l">>>>

physics_keywords == <<<<"p","h","y","s","i","c","s">>, <<"q","u","a","n","t","u","m">>, <<"m","e","c","h","a","n","i","c","s">>, <<"t","h","e","r","m","o","d","y","n","a","m","i","c","s">>>>

_get_relevant_departments(topic) ==
    IF contains_any(cs_keywords, lower(topic))
    THEN <<<<"E","E","C","S">>, <<"C","S">>, <<"C","E">>, <<"M","A","T","H">>, <<"S","T","A","T">>>>
    ELSE IF contains_any(business_keywords, lower(topic))
    THEN <<<<"B","S","A","N">>, <<"A","C","C","T">>, <<"F","I","N">>, <<"M","G","M","T">>, <<"M","K","T","G">>, <<"S","C","M">>>>
    ELSE IF contains_any(math_keywords, lower(topic))
    THEN <<<<"M","A","T","H">>, <<"S","T","A","T">>>>
    ELSE IF contains_any(physics_keywords, lower(topic))
    THEN <<<<"P","H","S","X">>, <<"A","S","T","R">>>>
    ELSE << >>

\* the loop over the <<subject, number>> pairs re.findall extracted from the
\* contexts the router returned: f"{dept} {code[1]}" for each pair of a
\* relevant department, once
rag_course(code) == join2(upper(code[1]), code[2])

rag_take(code, relevant_depts, found) ==
    /\ ~in_list(rag_course(code), found)
    /\ relevant_depts # << >> => in_list(upper(code[1]), relevant_depts)

RECURSIVE rag_courses(_, _, _)
rag_courses(course_codes, relevant_depts, found) ==
    IF course_codes = << >> THEN found
    ELSE rag_courses(Tail(course_codes), relevant_depts,
                     IF rag_take(Head(course_codes), relevant_depts, found)
                     THEN Append(found, rag_course(Head(course_codes))) ELSE found)

\* found_courses[:3]
first3(s) == SubSeq(s, 1, IF Len(s) < 3 THEN Len(s) ELSE 3)

\* The three queries the resolver sends to the router
rag_search_queries(topic) ==
    <<join2(topic, <<"c","o","u","r","s","e">>), join2(topic, <<"c","l","a","s","s">>), topic>>

\* where group(1) of the upper-case course code ends
code_letters_end(text, start) ==
    greatest({e \in span(<<B, Cls(UpperSet, 2, 4)>>, text, start) :
                 span(<<Spaces(0), Cls(DigitSet, 3, 4), B>>, text, e) # {}})

code_end(text, letters_end) ==
    greatest(span(<<Spaces(0), Cls(DigitSet, 3, 4), B>>, text, letters_end))

\* <<group(1), group(2)>> of the match that starts at start
code_groups(text, start, letters_end) ==
    <<SubSeq(text, start + 1, letters_end),
      SubSeq(text, greatest(span(<<Spaces(0)>>, text, letters_end)) + 1,
             code_end(text, letters_end))>>

\* re.findall(r'\b([A-Z]{2,4})\s*(\d{3,4})\b', line) from a position on; starts
\* holds the positions from there at which a match begins
RECURSIVE findall_from(_, _, _)
findall_next(line, start, found) ==
    findall_from(line, code_end(line, code_letters_end(line, start)),
                 Append(found, code_groups(line, start, code_letters_end(line, start))))

findall_at(line, starts, found) ==
    IF starts = {} THEN found ELSE findall_next(line, least(starts), found)

findall_from(line, from, found) ==
    findall_at(line, {s \in from..Len(line) : span(UpperCourseCode, line, s) # {}}, found)

\* the pairs of all the lines of the contexts; no code of the contexts the
\* retrievers format here runs over the end of a line
RECURSIVE course_codes_in(_)
course_codes_in(context) ==
    IF context = << >> THEN << >>
    ELSE findall_from(Head(context), 0, << >>) \o course_codes_in(Tail(context))

\* one turn of the loop over search_queries: the router after the call, the
\* contexts gathered, the queries routed, and whether route raised
rag_step(acc, query, results) ==
    [router |-> results.router,
     all_context |-> IF results.raised THEN acc.all_context
                     ELSE acc.all_context \o results.context,
     routed |-> Append(acc.routed, query), raised |-> results.raised]

RECURSIVE rag_search(_, _, _, _)
rag_search(search_queries, i, renv, acc) ==
    IF i > Len(search_queries) \/ acc.raised THEN acc
    ELSE rag_search(search_queries, i + 1, renv,
                    rag_step(acc, search_queries[i],
                             route(acc.router, search_queries[i], TRUE, renv)))

\* What the resolver gave back and did: the codes, the router after the call
\* and the queries routed
Resolved(courses, router, routed) ==
    [courses |-> courses, router |-> router, routed |-> routed]

\* method 2: the codes of the contexts, none when route raised
resolve_rag(topic_lower, rag) ==
    Resolved(IF ~rag.raised /\ rag.all_context # << >>
             THEN first3(rag_courses(course_codes_in(rag.all_context),
                                     _get_relevant_departments(topic_lower), << >>))
             ELSE << >>,
             rag.router, rag.routed)

\* method 1, the partial matches, before method 2
resolve_partial(router, topic, topic_lower, renv, found) ==
    IF found # << >> THEN Resolved(first3(found), router, << >>)
    ELSE resolve_rag(topic_lower,
                     rag_search(rag_search_queries(topic), 1, renv,
                                [router |-> router, all_context |-> << >>,
                                 routed |-> << >>, raised |-> FALSE]))

resolve_lower(router, topic, topic_lower, renv) ==
    IF topic_index(topic_lower) # 0
    THEN Resolved(first3(TOPIC_TO_COURSE_FALLBACK[topic_index(topic_lower)][2]),
                  router, << >>)
    ELSE resolve_partial(router, topic, topic_lower, renv,
                         partial_matches(topic_lower, 1, << >>))

_resolve_topic_to_courses(router, topic, renv) ==
    resolve_lower(router, topic, strip(lower(topic)), renv)

\* ------------------------------------------------------------ chat.py: _handle_live_course_query

other_career_of(career) == IF career = "Graduate" THEN "Undergraduate" ELSE "Graduate"

\* int(re.search(r'\d+', s).group()), -1 when s holds no digit
RECURSIVE number_of(_, _, _, _)
number_of(s, i, last, acc) ==
    IF i > last THEN acc ELSE number_of(s, i + 1, last, acc * 10 + int(s[i]))

digits_end(s, first) ==
    greatest({j \in first..Len(s) : \A k \in first..j : isdigit_char(s[k])})

number_from(s, first) == number_of(s, first, digits_end(s, first), 0)

first_number(s) ==
    IF \A i \in DOMAIN s : ~isdigit_char(s[i]) THEN -1
    ELSE number_from(s, least({i \in DOMAIN s : isdigit_char(s[i])}))

\* a level that is the one of the query whatever the code
career_of_query(resolved_course, career) == career

\* the career level of a resolved code: by its number, the level of the
\* query when it has none
career_of_code(resolved_course, career) ==
    IF first_number(resolved_course) = -1 THEN career
    ELSE IF first_number(resolved_course) >= 500 THEN "Graduate"
    ELSE "Undergraduate"

\* live_course_lookup.lookup_course: the k-th request of a call.  The site
\* answers with sections, with none, or the request fails.
lookup_course(course, career, live, k) ==
    IF k = live.hit_at
    THEN [success |-> TRUE, total_sections |-> 1, career |-> career, query |-> course]
    ELSE IF k \in live.fail
    THEN [success |-> FALSE, total_sections |-> 0, career |-> "absent", query |-> course]
    ELSE [success |-> TRUE, total_sections |-> 0, career |-> career, query |-> course]

\* result.get("career", career)
result_career(result, career) == IF result.career = "absent" THEN career ELSE result.career

\* A request in the log of the call: what was asked for and what came back
request(course, career, result) ==
    <<course, career,
      IF ~result.success THEN "failed"
      ELSE IF result.total_sections > 0 THEN "sections" ELSE "none">>

\* The locals of the call: course, career, result, the session's
\* last_mentioned_course, and the requests made so far
Locals(course, career, result, last_mentioned_course, lookups) ==
    [course |-> course, career |-> career, result |-> result,
     last_mentioned_course |-> last_mentioned_course, lookups |-> lookups]

\* a request that found sections of a resolved code
found_sections(st, resolved_course, career, result) ==
    Locals(resolved_course, career, result, resolved_course,
           Append(st.lookups, request(resolved_course, career, result)))

\* a request for the course asked for
asked(st, career, result) ==
    [st EXCEPT !.result = result,
               !.lookups = Append(@, request(st.course, career, result))]

\* a request for a resolved code that also makes it the course of the session
found_none_remembered(st, resolved_course, career, result) ==
    [st EXCEPT !.result = result, !.last_mentioned_course = resolved_course,
               !.lookups = Append(@, request(resolved_course, career, result))]

\* a request for a resolved code that found none
found_none(st, resolved_course, career, result) ==
    [st EXCEPT !.result = result,
               !.lookups = Append(@, request(resolved_course, career, result))]

\* The loop over the resolved codes, from code i on; k requests were made
\* before it
RECURSIVE try_resolved(_, _, _, _, _)
tried_other(resolved_courses, i, k, live, st, resolved_course, other_career, result) ==
    IF result.total_sections > 0
    THEN found_sections(st, resolved_course, other_career, result)
    ELSE try_resolved(resolved_courses, i + 1, k + 2, live,
                      found_none(st, resolved_course, other_career, result))

tried_first(resolved_courses, i, k, live, st, resolved_course, resolved_career, result) ==
    IF result.total_sections > 0
    THEN found_sections(st, resolved_course, resolved_career, result)
    ELSE tried_other(resolved_courses, i, k, live,
                     found_none(st, resolved_course, resolved_career, result),
                     resolved_course, other_career_of(resolved_career),
                     lookup_course(resolved_course, other_career_of(resolved_career),
                                   live, k + 2))

try_one(resolved_courses, i, k, live, st, resolved_course, resolved_career) ==
    tried_first(resolved_courses, i, k, live, st, resolved_course, resolved_career,
                lookup_course(resolved_course, resolved_career, live, k + 1))

try_resolved(resolved_courses, i, k, live, st) ==
    IF i > Len(resolved_courses) THEN st
    ELSE try_one(resolved_courses, i, k, live, st, resolved_courses[i],
                 career_of_code(resolved_courses[i], st.career))

\* What a call leaves behind: the session's last_mentioned_course, the router,
\* the cache, the reply, and what the call did: the course the reply is
\* about, the requests (lookups), the queries routed and the codes resolved
live_return(last_mentioned_course, router, cache, kind, value, course, lookups, routed,
            resolved) ==
    [last_mentioned_course |-> last_mentioned_course, router |-> router, cache |-> cache,
     reply |-> [kind |-> kind, value |-> value],
     course |-> course, lookups |-> lookups, routed |-> routed, resolved |-> resolved]

\* the answer the language model writes from the sections
Response(course, career) == [text |-> "llm", course |-> course, career |-> career]

\* the formatting of the result, and the response cache
live_formatted(st, router, cache, now, query_info, live, routed, resolved) ==
    IF live.llm_ok
    THEN live_return(st.last_mentioned_course, router,
                     set_response(cache, st.course, st.career, query_info.original_query,
                                  Response(st.course, st.career), now),
                     "live", Response(st.course, st.career), st.course, st.lookups,
                     routed, resolved)
    ELSE live_return(st.last_mentioned_course, router, cache, "raw_data",
                     Response(st.course, st.career), st.course, st.lookups, routed, resolved)

\* set_data(course, career, result), then the formatting
live_stored(st, router, cache, now, query_info, live, routed, resolved) ==
    live_formatted(st, router, set_data(cache, st.course, st.career, st.result, now),
                   now, query_info, live, routed, resolved)

\* after the other level and the resolved codes: not found, or the data
live_fetched(st, router, cache, now, query_info, live, routed, resolved) ==
    IF st.result.total_sections = 0
    THEN live_return(st.last_mentioned_course, router, cache,
                     IF query_info.is_topic_search THEN "not_found_topic" ELSE "not_found",
                     NoResponse, query_info.course, st.lookups, routed, resolved)
    ELSE live_stored([st EXCEPT !.career = result_career(st.result, st.career)],
                     router, cache, now, query_info, live, routed, resolved)

\* the resolved codes, tried in turn
live_resolved(st, res, cache, now, query_info, live) ==
    live_fetched(IF res.courses # << >> THEN try_resolved(res.courses, 1, 2, live, st)
                 ELSE st,
                 res.router, cache, now, query_info, live, res.routed, res.courses)

\* after the request for the other level
live_second(st, router, cache, now, query_info, live) ==
    IF st.result.total_sections = 0 /\ query_info.is_topic_search
    THEN live_resolved(st, _resolve_topic_to_courses(router, st.course, live.renv),
                       cache, now, query_info, live)
    ELSE live_fetched(st, router, cache, now, query_info, live, << >>, << >>)

\* after the first request
live_first(st, router, cache, now, query_info, live) ==
    IF ~st.result.success
    THEN live_return(st.last_mentioned_course, router, cache, "fetch_error", NoResponse,
                     st.course, st.lookups, << >>, << >>)
    ELSE IF st.result.total_sections = 0
    THEN live_second(asked(st, other_career_of(st.career),
                           lookup_course(st.course, other_career_of(st.career), live, 2)),
                     router, cache, now, query_info, live)
    ELSE live_stored(st, router, cache, now, query_info, live, << >>, << >>)

\* after the look into the data cache
live_data(last_mentioned_course, router, got, now, query_info, live) ==
    IF got.hit
    THEN live_formatted(Locals(query_info.course, query_info.career, got.value,
                               last_mentioned_course, << >>),
                        router, got.cache, now, query_info, live, << >>, << >>)
    ELSE live_first(asked(Locals(query_info.course, query_info.career, NoData,
                                 last_mentioned_course, << >>),
                          query_info.career,
                          lookup_course(query_info.course, query_info.career, live, 1)),
                    router, got.cache, now, query_info, live)

\* after the look into the response cache
live_response(last_mentioned_course, router, got, now, query_info, live) ==
    IF got.hit
    THEN live_return(last_mentioned_course, router, got.cache, "cached", got.value,
                     query_info.course, << >>, << >>, << >>)
    ELSE live_data(last_mentioned_course, router,
                   get_data(got.cache, query_info.course, query_info.career, now),
                   now, query_info, live)

\* _handle_live_course_query(query_info) of a session with this
\* last_mentioned_course and router, at time now.  live holds what the
\* collaborators do during the call: hit_at and fail the answers of the site,
\* renv what the router finds for the resolver, llm_ok whether the
\* formatting call succeeds.
_handle_live_course_query(last_mentioned_course, router, cache, now, query_info, live) ==
    live_response(IF query_info.is_topic_search THEN last_mentioned_course
                  ELSE query_info.course,
                  router,
                  get_response(cache, query_info.course, query_info.career,
                               query_info.original_query, now),
                  now, query_info, live)

QueryInfo(course, career, original_query, is_topic_search) ==
    [needed |-> TRUE, course |-> course, career |-> career,
     original_query |-> original_query, is_topic_search |-> is_topic_search]

Live(hit_at, fail, renv, llm_ok) ==
    [hit_at |-> hit_at, fail |-> fail, renv |-> renv, llm_ok |-> llm_ok]

\* ------------------------------------------------ chat.py: _needs_live_course_lookup

general_info_patterns == <<
    <<"w","h","a","t"," ","i","s">>, <<"w","h","a","t","'","s">>, <<"t","e","l","l"," ","m","e"," ","a","b","o","u","t">>, <<"w","h","a","t"," ","d","o"," ","y","o","u"," ","k","n","o","w">>,
    <<"d","e","s","c","r","i","b","e">>, <<"e","x","p","l","a","i","n">>, <<"i","n","f","o","r","m","a","t","i","o","n"," ","a","b","o","u","t">>, <<"d","e","t","a","i","l","s"," ","a","b","o","u","t">>,
    <<"p","r","e","r","e","q","u","i","s","i","t","e","s">>, <<"p","r","e","r","e","q","s">>, <<"c","r","e","d","i","t","s">>, <<"d","e","s","c","r","i","p","t","i","o","n">>, <<"a","b","o","u","t">> >>

live_keywords == <<<<"s","e","a","t","s">>, <<"e","n","r","o","l","l">>, <<"o","p","e","n">>, <<"a","v","a","i","l","a","b","l","e">>, <<"w","h","o"," ","t","e","a","c","h","e","s">>,
    <<"i","n","s","t","r","u","c","t","o","r">>, <<"s","c","h","e","d","u","l","e">>, <<"w","h","e","n"," ","d","o","e","s">>, <<"s","e","c","t","i","o","n">>>>

known_topics == <<
    <<"m","a","c","h","i","n","e"," ","l","e","a","r","n","i","n","g">>, <<"d","e","e","p"," ","l","e","a","r","n","i","n","g">>, <<"a","r","t","i","f","i","c","i","a","l"," ","i","n","t","e","l","l","i","g","e","n","c","e">>, <<"a","i">>,
    <<"r","e","i","n","f","o","r","c","e","m","e","n","t"," ","l","e","a","r","n","i","n","g">>, <<"n","e","u","r","a","l"," ","n","e","t","w","o","r","k">>, <<"c","o","m","p","u","t","e","r"," ","v","i","s","i","o","n">>,
    <<"n","a","t","u","r","a","l"," ","l","a","n","g","u","a","g","e">>, <<"n","l","p">>, <<"d","a","t","a"," ","s","c","i","e","n","c","e">>, <<"r","o","b","o","t","i","c","s">>, <<"a","l","g","o","r","i","t","h","m","s">>,
    <<"d","a","t","a","b","a","s","e">>, <<"o","p","e","r","a","t","i","n","g"," ","s","y","s","t","e","m">>, <<"c","o","m","p","u","t","e","r"," ","n","e","t","w","o","r","k">>, <<"c","y","b","e","r","s","e","c","u","r","i","t","y">>,
    <<"s","o","f","t","w","a","r","e"," ","e","n","g","i","n","e","e","r","i","n","g">>, <<"w","e","b"," ","d","e","v","e","l","o","p","m","e","n","t">>, <<"m","o","b","i","l","e">>, <<"c","l","o","u","d">>,
    <<"c","a","l","c","u","l","u","s">>, <<"s","t","a","t","i","s","t","i","c","s">>, <<"p","h","y","s","i","c","s">>, <<"c","h","e","m","i","s","t","r","y">>, <<"b","i","o","l","o","g","y">>,
    <<"p","s","y","c","h","o","l","o","g","y">>, <<"e","c","o","n","o","m","i","c","s">>, <<"b","u","s","i","n","e","s","s">>, <<"m","a","r","k","e","t","i","n","g">>, <<"f","i","n","a","n","c","e">>,
    <<"s","u","p","p","l","y"," ","c","h","a","i","n">>, <<"a","n","a","l","y","t","i","c","s">>, <<"a","c","c","o","u","n","t","i","n","g">> >>

\* r'^[a-z]{2,4}\s*\d{3,4}$'
CodeOnly == <<Cls(LetterSet, 2, 4), Spaces(0), Cls(DigitSet, 3, 4)>>

person_name(text) ==
    IF Len(text) \in span(CodeOnly, text, 0) THEN FALSE
    ELSE IF contains_any(known_topics, text) THEN FALSE
    ELSE Len(split(text)) \in {1, 2} /\ \A i \in DOMAIN text : ~isdigit_char(text[i])

_looks_like_person_name(text) == person_name(strip(lower(text)))

\* (?:prof(?:essor)?\.?\s+)
ProfTitle == <<Lit({<<"p","r","o","f">>, <<"p","r","o","f","e","s","s","o","r">>}), Opt({<<".">>}), Spaces(1)>>

\* who\s+is\s+  and  tell\s+me\s+about\s+
WhoIs == <<Lit({<<"w","h","o">>}), Spaces(1), Lit({<<"i","s">>}), Spaces(1)>>

TellMeAbout ==
    <<Lit({<<"t","e","l","l">>}), Spaces(1), Lit({<<"m","e">>}), Spaces(1), Lit({<<"a","b","o","u","t">>}), Spaces(1)>>

\* [a-z]+(?:\s+[a-z]+)? : where one or two words that start at position p end
name_ends(text, p) ==
    span(<<AtLeast(LetterSet, 1)>>, text, p)
    \cup span(<<AtLeast(LetterSet, 1), Spaces(1), AtLeast(LetterSet, 1)>>, text, p)

\* \??$ and \s*\??$ : the position p is followed by this and nothing more
ends_there(text, p, spaces) ==
    Len(text) \in span(IF spaces THEN <<Spaces(0), Opt({<<"?">>})>> ELSE <<Opt({<<"?">>})>>,
                       text, p)

\* the ends of a name that starts at position p and reaches the end of the text
names_to_end(text, p, spaces) == {e \in name_ends(text, p) : ends_there(text, e, spaces)}

\* group(1) of a pattern that ends with the name: the name after the first of
\* the starts given that has one
anchored_name(text, starts, spaces) ==
    IF \E k \in DOMAIN starts : names_to_end(text, starts[k], spaces) # {}
    THEN SubSeq(text,
                starts[least({k \in DOMAIN starts :
                                 names_to_end(text, starts[k], spaces) # {}})] + 1,
                greatest(names_to_end(text,
                    starts[least({k \in DOMAIN starts :
                                     names_to_end(text, starts[k], spaces) # {}})],
                    spaces)))
    ELSE None

\* the starts of the group a match that begins at position s may have, the
\* ones behind a title first
group_starts(text, s, lead) ==
    (IF span(lead \o ProfTitle, text, s) = {} THEN << >>
     ELSE <<greatest(span(lead \o ProfTitle, text, s))>>)
    \o (IF lead = << >> \/ span(lead, text, s) = {} THEN << >>
        ELSE <<greatest(span(lead, text, s))>>)

\* the first start of a match whose group is a name up to the end
anchored_from(text, lead, spaces) ==
    {s \in 0..Len(text) :
        anchored_name(text, group_starts(text, s, lead), spaces) # None}

\* r"who\s+is\s+(?:prof(?:essor)?\.?\s+)?([a-z]+(?:\s+[a-z]+)?)\??$" and
\* r"(?:prof(?:essor)?\.?\s+)([a-z]+(?:\s+[a-z]+)?)\s*\??$": group(1), None
\* when there is no match
anchored_person(text, lead, spaces) ==
    IF anchored_from(text, lead, spaces) = {} THEN None
    ELSE anchored_name(text, group_starts(text, least(anchored_from(text, lead, spaces)),
                                          lead), spaces)

\* [a-z]+ from the first of the starts given where a letter stands
first_word(text, starts) ==
    IF \E k \in DOMAIN starts : span(<<AtLeast(LetterSet, 1)>>, text, starts[k]) # {}
    THEN SubSeq(text,
                starts[least({k \in DOMAIN starts :
                    span(<<AtLeast(LetterSet, 1)>>, text, starts[k]) # {}})] + 1,
                greatest(span(<<AtLeast(LetterSet, 1)>>, text,
                    starts[least({k \in DOMAIN starts :
                        span(<<AtLeast(LetterSet, 1)>>, text, starts[k]) # {}})])))
    ELSE None

told_from(text) ==
    {s \in 0..Len(text) : first_word(text, group_starts(text, s, TellMeAbout)) # None}

\* r"tell\s+me\s+about\s+(?:prof(?:essor)?\.?\s+)?([a-z]+)": group(1)
told_person(text) ==
    IF told_from(text) = {} THEN None
    ELSE first_word(text, group_starts(text, least(told_from(text)), TellMeAbout))

is_person(name) == name # None /\ _looks_like_person_name(name)

\* the early exit for the queries about a person
person_query(q) ==
    \/ is_person(anchored_person(q, WhoIs, FALSE))
    \/ is_person(told_person(q))
    \/ is_person(anchored_person(q, << >>, TRUE))

phrase_refs == <<
    <<"t","h","i","s"," ","c","o","u","r","s","e">>, <<"t","h","a","t"," ","c","o","u","r","s","e">>, <<"t","h","i","s"," ","c","l","a","s","s">>, <<"t","h","a","t"," ","c","l","a","s","s">>,
    <<"t","h","e"," ","c","o","u","r","s","e">>, <<"t","h","e"," ","c","l","a","s","s">>, <<"t","h","a","t"," ","o","n","e">>, <<"t","h","i","s"," ","o","n","e">> >>

\* re.fullmatch(r"\s*(it|that|this|that one|this one)\s*\??\s*", q)
short_pronoun_match(q) ==
    Len(q) \in span(<<Spaces(0),
                      Lit({<<"i","t">>, <<"t","h","a","t">>, <<"t","h","i","s">>, <<"t","h","a","t"," ","o","n","e">>, <<"t","h","i","s"," ","o","n","e">>}),
                      Spaces(0), Opt({<<"?">>}), Spaces(0)>>, q, 0)

\* the query with the course of the session in front of a reference to it
working_query(last_mentioned_course, query, q) ==
    IF last_mentioned_course # None /\ last_mentioned_course # << >>
       /\ (short_pronoun_match(q) \/ contains_any(phrase_refs, q))
    THEN join2(last_mentioned_course, query)
    ELSE query

advanced_topics == <<
    <<"m","a","c","h","i","n","e"," ","l","e","a","r","n","i","n","g">>, <<"d","e","e","p"," ","l","e","a","r","n","i","n","g">>, <<"a","i">>, <<"a","r","t","i","f","i","c","i","a","l"," ","i","n","t","e","l","l","i","g","e","n","c","e">>,
    <<"n","e","u","r","a","l"," ","n","e","t","w","o","r","k">>, <<"d","a","t","a"," ","s","c","i","e","n","c","e">>, <<"n","l","p">>, <<"c","o","m","p","u","t","e","r"," ","v","i","s","i","o","n">>, <<"r","o","b","o","t","i","c","s">>,
    <<"r","e","i","n","f","o","r","c","e","m","e","n","t"," ","l","e","a","r","n","i","n","g">>, <<"d","e","e","p"," ","r","e","i","n","f","o","r","c","e","m","e","n","t"," ","l","e","a","r","n","i","n","g">> >>

\* the career the words of the query ask for, else the one found
career_asked(q, career) ==
    IF contains_any(<<<<"g","r","a","d","u","a","t","e">>, <<"g","r","a","d"," ","l","e","v","e","l">>, <<"m","a","s","t","e","r","s">>, <<"p","h","d">>>>, q)
    THEN "Graduate"
    ELSE IF contains_any(<<<<"u","n","d","e","r","g","r","a","d","u","a","t","e">>, <<"u","n","d","e","r","g","r","a","d">>, <<"b","a","c","h","e","l","o","r","s">>>>, q)
    THEN "Undergraduate"
    ELSE career

topic_career(topic) ==
    IF contains_any(advanced_topics, lower(topic)) THEN "Graduate" ELSE "Undergraduate"

\* What _needs_live_course_lookup returns: None, or the dict of the lookup
NoLookup == << >>

\* the dict for a course code found in the text, and for a topic
code_info(text, q, original_query) ==
    QueryInfo(code_at(text, start_of(CourseCode, text)).course_code,
              career_asked(q, career_of_code(code_at(text, start_of(CourseCode, text)).course_code,
                                             "Undergraduate")),
              original_query, FALSE)

topic_info(topic, name, q, original_query) ==
    QueryInfo(name, career_asked(q, topic_career(topic)), original_query, TRUE)

\* str.title()
title(s) ==
    [i \in DOMAIN s |->
        IF ~isalpha_char(s[i]) THEN s[i]
        ELSE IF i = 1 \/ ~isalpha_char(s[i - 1])
        THEN (IF s[i] \in DOMAIN ToUpper THEN ToUpper[s[i]] ELSE s[i])
        ELSE (IF s[i] \in DOMAIN ToLower THEN ToLower[s[i]] ELSE s[i])]

\* ---- the regex fallback
live_indicators == <<
    <<"w","h","o"," ","t","e","a","c","h","e","s">>, <<"w","h","o"," ","i","s"," ","t","e","a","c","h","i","n","g">>, <<"i","n","s","t","r","u","c","t","o","r"," ","f","o","r">>, <<"t","a","u","g","h","t"," ","b","y">>,
    <<"s","e","a","t","s">>, <<"o","p","e","n"," ","s","e","a","t","s">>, <<"s","e","a","t","s"," ","a","v","a","i","l","a","b","l","e">>, <<"a","v","a","i","l","a","b","i","l","i","t","y">>, <<"e","n","r","o","l","l">>,
    <<"i","s"," ","t","h","e","r","e"," ","s","p","a","c","e">>, <<"c","a","n"," ","i"," ","e","n","r","o","l","l">>, <<"i","s"," ","i","t"," ","f","u","l","l">>, <<"i","s"," ","i","t"," ","o","p","e","n">>,
    <<"c","l","a","s","s"," ","s","c","h","e","d","u","l","e">>, <<"w","h","e","n"," ","i","s">>, <<"w","h","a","t"," ","t","i","m","e">>, <<"s","c","h","e","d","u","l","e"," ","f","o","r">>,
    <<"t","h","i","s"," ","s","e","m","e","s","t","e","r">>, <<"c","u","r","r","e","n","t"," ","s","e","m","e","s","t","e","r">>, <<"n","e","x","t"," ","s","e","m","e","s","t","e","r">>,
    <<"n","e","x","t"," ","s","p","r","i","n","g">>, <<"n","e","x","t"," ","f","a","l","l">>, <<"s","e","c","t","i","o","n">>, <<"s","e","c","t","i","o","n","s">> >>

question_words == <<<<"w","h","o">>, <<"w","h","e","n">>, <<"w","h","e","r","e">>, <<"h","o","w"," ","m","a","n","y">>, <<"i","s"," ","t","h","e","r","e">>,
    <<"s","e","a","t","s">>, <<"t","e","a","c","h">>, <<"i","n","s","t","r","u","c","t","o","r">>, <<"s","c","h","e","d","u","l","e">>, <<"s","e","c","t","i","o","n">>, <<"a","v","a","i","l","a","b","l","e">>>>

\* r"^([A-Z]{2,4}\s*\d{3,4})\s*\??$" and r"(spring|fall|summer)\s+\d{4}"
forced_live(working, q) ==
    \/ Len(working) \in span(CodeOnly \o <<Spaces(0), Opt({<<"?">>})>>, working, 0)
    \/ search(<<Lit({<<"s","p","r","i","n","g">>, <<"f","a","l","l">>, <<"s","u","m","m","e","r">>}), Spaces(1), Cls(DigitSet, 4, 4)>>, q)

NextThis == {<<"n","e","x","t">>, <<"t","h","i","s">>}

InOrFor == Lit({<<"i","n">>, <<"f","o","r">>})

Seats == Lit({<<"s","e","a","t">>, <<"s","e","a","t","s">>})

\* topic_patterns: what stands before the group, and the words that end it
topic_patterns == <<
    [lead |-> {<<Lit({<<"w","h","o">>}), Spaces(1), Lit({<<"t","e","a","c","h","e">>, <<"t","e","a","c","h","e","s">>}),
                 Spaces(1)>>},
     stop |-> NextThis \cup {<<"c","l","a","s","s">>, <<"c","o","u","r","s","e">>}],
    [lead |-> {<<Lit({<<"w","h","o">>}), Spaces(1), Lit({<<"i","s">>}), Spaces(1),
                 Lit({<<"t","e","a","c","h","i","n","g">>}), Spaces(1)>>},
     stop |-> NextThis],
    [lead |-> {<<Seats, Spaces(1), InOrFor, Spaces(1)>>}, stop |-> NextThis],
    [lead |-> {<<Lit({<<"a","v","a","i","l","a","b","l","e">>, <<"o","p","e","n">>}), Spaces(1), Seats, Spaces(1), InOrFor,
                 Spaces(1)>>,
               <<Lit({<<"a","v","a","i","l","a","b","l","e">>, <<"o","p","e","n">>}), Spaces(1), InOrFor, Spaces(1)>>},
     stop |-> {}],
    [lead |-> {<<Lit({<<"s","p","a","c","e">>}), Spaces(1), Lit({<<"i","n">>}), Spaces(1)>>}, stop |-> {}],
    [lead |-> {<<Lit({<<"e","n","r","o","l","l">>}), Spaces(1), InOrFor, Spaces(1)>>}, stop |-> {}] >>

\* where the group of a match that begins at position s may start: behind the
\* lead, with a character left for the group
topic_starts(q, s, pattern) ==
    {e \in UNION {span(lead, q, s) : lead \in pattern.lead} : e < Len(q)}

\* (?:\s+next|\s+this|\?|$) at position p
topic_stops(q, p, stop) ==
    \/ p = Len(q)
    \/ q[p + 1] = "?"
    \/ (stop # {} /\ span(<<Spaces(1), Lit(stop)>>, q, p) # {})

\* (.+?): from position e to the first place behind it where the match can end
topic_group(q, e, stop) ==
    SubSeq(q, e + 1, least({p \in (e + 1)..Len(q) : topic_stops(q, p, stop)}))

topic_matched(q, pattern, starts) ==
    IF starts = {} THEN None
    ELSE topic_group(q, greatest(topic_starts(q, least(starts), pattern)), pattern.stop)

\* match.group(1) of re.search(pattern, q), None when there is no match
topic_of(q, pattern) ==
    topic_matched(q, pattern, {s \in 0..Len(q) : topic_starts(q, s, pattern) # {}})

Fillers == {<<"c","o","u","r","s","e">>, <<"c","l","a","s","s">>, <<"c","o","u","r","s","e","s">>, <<"c","l","a","s","s","e","s">>, <<"t","h","e">>, <<"a">>, <<"a","n">>}

\* the end of the word of Fillers that stands at position p between two
\* boundaries, p when there is none
filler_end(t, p) ==
    IF at_boundary(t, p)
       /\ \E w \in Fillers : follows(t, p, w) /\ at_boundary(t, p + Len(w))
    THEN p + Len(CHOOSE w \in Fillers : follows(t, p, w) /\ at_boundary(t, p + Len(w)))
    ELSE p

\* re.sub(r"\b(course|class|courses|classes|the|a|an)\b", "", t)
RECURSIVE without_fillers(_, _, _)
without_fillers(t, p, acc) ==
    IF p >= Len(t) \/ Len(acc) > Len(t) THEN acc
    ELSE IF filler_end(t, p) > p THEN without_fillers(t, filler_end(t, p), acc)
    ELSE without_fillers(t, p + 1, Append(acc, t[p + 1]))

topic_cleaned(group) ==
    IF group = None THEN None ELSE strip(without_fillers(strip(group), 0, << >>))

\* the loop over topic_patterns from the i-th on: <<topic_search, whether it
\* is long enough to ask for a lookup>>
RECURSIVE topic_search_from(_, _, _)
topic_search_next(q, i, topic_search, found) ==
    IF found = None THEN topic_search_from(q, i + 1, topic_search)
    ELSE IF Len(found) > 2 THEN <<found, TRUE>>
    ELSE topic_search_from(q, i + 1, found)

topic_search_from(q, i, topic_search) ==
    IF i > Len(topic_patterns) THEN <<topic_search, FALSE>>
    ELSE topic_search_next(q, i, topic_search, topic_cleaned(topic_of(q, topic_patterns[i])))

regex_result(working, q, original_query, needs_live, topic_search) ==
    IF ~needs_live THEN NoLookup
    ELSE IF search(CourseCode, working) THEN code_info(working, q, original_query)
    ELSE IF topic_search # None /\ topic_search # << >>
    THEN topic_info(topic_search, title(topic_search), q, original_query)
    ELSE NoLookup

regex_topic(working, q, original_query, topic) ==
    regex_result(working, q, original_query,
                 \/ forced_live(strip(working), q)
                 \/ contains_any(live_indicators, q)
                 \/ (search(CourseCode, working) /\ contains_any(question_words, q))
                 \/ topic[2],
                 topic[1])

\* the regex fallback
regex_fallback(working, q, original_query) ==
    regex_topic(working, q, original_query, topic_search_from(q, 1, None))

\* ---- the detector of intents
\* What intent_detector.detect answers: that a lookup is needed, for the topic
\* it names; that none is; or nothing, when there is no detector or it raises
Detected(topic) == [needs_live |-> TRUE, topic |-> topic]

NotDetected == [needs_live |-> FALSE, topic |-> << >>]

detected_info(topic, q, original_query) ==
    IF search(CourseCode, topic) THEN code_info(topic, q, original_query)
    ELSE topic_info(topic, topic, q, original_query)

detect_working(working, q, original_query, detector) ==
    IF detector.needs_live /\ detector.topic # << >>
    THEN detected_info(detector.topic, q, original_query)
    ELSE regex_fallback(working, q, original_query)

detect_lower(working, original_query, detector) ==
    detect_working(working, lower(working), original_query, detector)

\* _needs_live_course_lookup(query), with what the detector answers
_needs_live_course_lookup(last_mentioned_course, query, detector) ==
    IF contains_any(general_info_patterns, lower(query))
       /\ ~contains_any(live_keywords, lower(query))
    THEN NoLookup
    ELSE IF person_query(lower(query)) THEN NoLookup
    ELSE detect_lower(working_query(last_mentioned_course, query, lower(query)), query,
                      detector)

\* ------------------------------------------------------------ chat.py: BabyJayChat

\* BabyJayChat.__init__ with the history the store holds for the session;
\* history is the length of _conversation_history
NewSession(stored_history) ==
    [router |-> NewRouter, recent_context |-> NoContext, last_search_query |-> << >>,
     waiting_for_clarification |-> FALSE, clarification_context |-> None,
     original_ambiguous_query |-> None, active_department_filter |-> None,
     last_mentioned_course |-> None, history |-> stored_history]

clear_history(self) ==
    [self EXCEPT !.history = 0, !.recent_context = NoContext,
                 !.last_search_query = << >>, !.active_department_filter = None,
                 !.last_mentioned_course = None]

\* ------------------------------------------------------------ the live lookup on its own

\* ---- bounds
MaxCalls == 2

MaxClock == 60

\* What _needs_live_course_lookup hands over: a course code, a topic of the
\* fallback table, and a topic unknown to it
QueryInfos ==
    {QueryInfo(<<"E","E","C","S"," ","1","6","8">>, "Undergraduate", <<"w","h","o"," ","t","e","a","c","h","e","s"," ","e","e","c","s"," ","1","6","8">>, FALSE),
     QueryInfo(<<"M","a","c","h","i","n","e"," ","L","e","a","r","n","i","n","g">>, "Graduate", <<"w","h","o"," ","t","e","a","c","h","e","s"," ","m","a","c","h","i","n","e"," ","l","e","a","r","n","i","n","g">>, TRUE),
     QueryInfo(<<"P","o","t","t","e","r","y">>, "Undergraduate", <<"e","n","r","o","l","l"," ","i","n"," ","p","o","t","t","e","r","y">>, TRUE)}

\* the router finds courses by its search
OneEnv == RouteEnv(Empty, {"search"}, MixedFaculty, "empty")

\* What the router finds for the resolver: courses, nothing but what the
\* vector store holds, or nothing while the vector store cannot be opened
ResolverEnvs ==
    {OneEnv,
     RouteEnv(Empty, {}, MixedFaculty, "context"),
     RouteEnv(Empty, {}, MixedFaculty, "init_raises")}

\* The request that finds sections (0: none does), the requests that fail,
\* and whether the language model formats the reply
Lives ==
    {Live(hit_at, {}, renv, TRUE) : hit_at \in {0, 2, 4}, renv \in ResolverEnvs}
    \cup {Live(0, {1}, OneEnv, TRUE), Live(0, {3}, OneEnv, TRUE), Live(5, {}, OneEnv, TRUE),
          Live(1, {}, OneEnv, FALSE), Live(3, {}, OneEnv, FALSE)}

InitLive ==
    /\ bot = NewSession(0)
    /\ _smart_cache = EmptyCache
    /\ clock = 0
    /\ conversations = << >>
    /\ done = [op |-> "init", calls |-> 0]
    /\ rate_limiter = None

\* What a call of the handler did, with the session and the cache before it
Handled(calls, last_mentioned_course, cache, query_info, r) ==
    [op |-> "live", calls |-> calls,
     before |-> [last_mentioned_course |-> last_mentioned_course, cache |-> cache],
     query_info |-> query_info, reply |-> r.reply, course |-> r.course,
     lookups |-> r.lookups, routed |-> r.routed, resolved |-> r.resolved]

Handle(query_info, r) ==
    /\ bot' = [bot EXCEPT !.last_mentioned_course = r.last_mentioned_course,
                          !.router = r.router]
    /\ _smart_cache' = r.cache
    /\ done' = Handled(done.calls + 1, bot.last_mentioned_course, _smart_cache,
                       query_info, r)

\* self._handle_live_course_query(query_info)
HandleLive ==
    /\ done.calls < MaxCalls
    /\ UNCHANGED <<clock, conversations>>
    /\ \E query_info \in QueryInfos, live \in Lives :
          Handle(query_info,
                 _handle_live_course_query(bot.last_mentioned_course, bot.router,
                                           _smart_cache, clock, query_info, live))
    /\ UNCHANGED rate_limiter

\* time passes: the data of the cache expire
Tick ==
    /\ clock < MaxClock
    /\ clock' = clock + DATA_TTL
    /\ UNCHANGED <<bot, _smart_cache, conversations, done>>
    /\ UNCHANGED rate_limiter

NextLive == HandleLive \/ Tick

SpecLive == InitLive /\ [][NextLive]_vars

\* ------------------------------------------------------------ the resolver on its own

\* Topics: keys of the table as they are typed, topics that keys contain or
\* that contain keys, and topics unknown to the table
Topics ==
    {<<"m","a","c","h","i","n","e"," ","l","e","a","r","n","i","n","g">>, <<"M","a","c","h","i","n","e"," ","L","e","a","r","n","i","n","g">>, <<" ","r","o","b","o","t","i","c","s"," ">>, <<"n","e","u","r","a","l"," ","n","e","t","w","o","r","k","s">>,
     <<"D","e","e","p"," ","R","e","i","n","f","o","r","c","e","m","e","n","t"," ","L","e","a","r","n","i","n","g">>, <<"s","u","p","p","l","y"," ","c","h","a","i","n">>, <<"n","l","p">>, <<"d","a","t","a","b","a","s","e","s">>,
     <<"l","e","a","r","n","i","n","g">>, <<"n","e","u","r","a","l">>, <<"d","a","t","a">>, <<"d","e","e","p">>, <<"r","o","b","o","t">>, <<"a","n","a","l","y","t","i","c","s">>,
     <<"a","d","v","a","n","c","e","d"," ","m","a","c","h","i","n","e"," ","l","e","a","r","n","i","n","g">>, <<"i","n","t","r","o"," ","t","o"," ","r","o","b","o","t","i","c","s">>, <<"m","o","b","i","l","e"," ","r","o","b","o","t","i","c","s"," ","l","a","b">>,
     <<"s","e","c","u","r","i","t","y">>, <<"n","e","t","w","o","r","k"," ","s","e","c","u","r","i","t","y">>, <<"c","o","m","p","u","t","e","r">>, <<"s">>, << >>,
     <<"P","o","t","t","e","r","y">>, <<"c","a","l","c","u","l","u","s">>, <<"q","u","a","n","t","u","m"," ","p","h","y","s","i","c","s">>, <<"m","a","r","k","e","t","i","n","g">>}

InitResolve ==
    /\ bot = None
    /\ _smart_cache = None
    /\ clock = 0
    /\ conversations = << >>
    /\ \E topic \in Topics, renv \in ResolverEnvs :
          done = [op |-> "input", topic |-> topic, renv |-> renv]
    /\ rate_limiter = None

\* self._resolve_topic_to_courses(topic)
ResolveTopic ==
    /\ done.op = "input"
    /\ done' = [op |-> "resolved", topic |-> done.topic, renv |-> done.renv,
                r |-> _resolve_topic_to_courses(NewRouter, done.topic, done.renv)]
    /\ UNCHANGED <<bot, _smart_cache, clock, conversations>>
    /\ UNCHANGED rate_limiter

NextResolve == ResolveTopic

SpecResolve == InitResolve /\ [][NextResolve]_vars

\* --------------------------------------------------- chat.py: predicates

GREETING_PATTERNS == <<
    <<"h","i">>, <<"h","e","l","l","o">>, <<"h","e","y">>, <<"s","u","p">>, <<"y","o">>, <<"h","o","l","a">>, <<"h","o","w","d","y">>,
    <<"g","o","o","d"," ","m","o","r","n","i","n","g">>, <<"g","o","o","d"," ","a","f","t","e","r","n","o","o","n">>, <<"g","o","o","d"," ","e","v","e","n","i","n","g">>, <<"m","o","r","n","i","n","g">>,
    <<"h","i"," ","t","h","e","r","e">>, <<"h","e","l","l","o"," ","t","h","e","r","e">>, <<"h","e","y"," ","t","h","e","r","e">>,
    <<"w","h","a","t","'","s"," ","u","p">>, <<"w","h","a","t","s"," ","u","p">>, <<"w","a","s","s","u","p">>, <<"h","o","w","'","s"," ","i","t"," ","g","o","i","n","g">>, <<"h","o","w","s"," ","i","t"," ","g","o","i","n","g">>,
    <<"h","o","w"," ","a","r","e"," ","y","o","u">>, <<"h","o","w"," ","a","r","e"," ","y","o","u"," ","d","o","i","n","g">>, <<"h","o","w"," ","y","o","u"," ","d","o","i","n","g">>, <<"h","o","w","'","r","e"," ","y","o","u">>,
    <<"h","o","w"," ","d","o"," ","y","o","u"," ","d","o">>, <<"w","h","a","t","'","s"," ","g","o","o","d">>, <<"w","h","a","t","s"," ","g","o","o","d">>, <<"h","o","w","'","s"," ","e","v","e","r","y","t","h","i","n","g">>,
    <<"h","o","w","s"," ","e","v","e","r","y","t","h","i","n","g">>, <<"h","o","w","'","s"," ","l","i","f","e">>, <<"h","o","w","s"," ","l","i","f","e">>, <<"h","o","w"," ","a","r","e"," ","t","h","i","n","g","s">>,
    <<"t","h","a","n","k","s">>, <<"t","h","a","n","k"," ","y","o","u">>, <<"t","h","x">>, <<"t","y">>, <<"t","h","a","n","k","s"," ","a"," ","l","o","t">>, <<"t","h","a","n","k"," ","y","o","u"," ","s","o"," ","m","u","c","h">>,
    <<"b","y","e">>, <<"g","o","o","d","b","y","e">>, <<"s","e","e"," ","y","a">>, <<"l","a","t","e","r">>, <<"t","a","k","e"," ","c","a","r","e">>, <<"c","y","a">>, <<"p","e","a","c","e">> >>

GreetingPunct == {"!", "?", "."}

\* r"^how('?s| is| are)?\s*(it going|you|things|everything|life|u|ya).*$"
greeting_regex_how(q) ==
    \E opt \in {<< >>, <<"'","s">>, <<"s">>, <<" ","i","s">>, <<" ","a","r","e">>} :
        /\ startswith(q, <<"h","o","w">> \o opt)
        /\ LET rest == lstrip(SubSeq(q, Len(opt) + 4, Len(q)))
           IN  \E alt \in {<<"i","t"," ","g","o","i","n","g">>, <<"y","o","u">>, <<"t","h","i","n","g","s">>, <<"e","v","e","r","y","t","h","i","n","g">>,
                           <<"l","i","f","e">>, <<"u">>, <<"y","a">>} : startswith(rest, alt)

\* r"^what'?s?\s*(up|good|happening|going on).*$"
greeting_regex_what(q) ==
    \E opt \in {<< >>, <<"'">>, <<"s">>, <<"'","s">>} :
        /\ startswith(q, <<"w","h","a","t">> \o opt)
        /\ LET rest == lstrip(SubSeq(q, Len(opt) + 5, Len(q)))
           IN  \E alt \in {<<"u","p">>, <<"g","o","o","d">>, <<"h","a","p","p","e","n","i","n","g">>, <<"g","o","i","n","g"," ","o","n">>} :
                   startswith(rest, alt)

\* r"^<stem><c>+[!?.]*$" for hi+, hello+ and yo+
greeting_regex_plus(q, stem, c) ==
    LET core == rstrip_chars(q, GreetingPunct)
    IN  /\ startswith(core, Append(stem, c))
        /\ lstrip_chars(SubSeq(core, Len(stem) + 1, Len(core)), {c}) = << >>

\* r"^hey+\s*(there)?[!?.]*$"
greeting_regex_hey(q) ==
    LET core == rstrip_chars(q, GreetingPunct)
    IN  /\ startswith(core, <<"h","e","y">>)
        /\ lstrip(lstrip_chars(SubSeq(core, 3, Len(core)), {"y"})) \in {<< >>, <<"t","h","e","r","e">>}

\* any(re.match(pattern, q) for pattern in GREETING_REGEX_PATTERNS)
GREETING_REGEX_PATTERNS(q) ==
    \/ greeting_regex_how(q)
    \/ greeting_regex_what(q)
    \/ greeting_regex_hey(q)
    \/ greeting_regex_plus(q, <<"h">>, "i")
    \/ greeting_regex_plus(q, <<"h","e","l","l">>, "o")
    \/ greeting_regex_plus(q, <<"y">>, "o")

_is_greeting(query) ==
    LET q == rstrip_chars(strip(lower(query)), GreetingPunct)
    IN  \/ in_list(q, GREETING_PATTERNS)
        \/ GREETING_REGEX_PATTERNS(q)
        \/ \E i \in DOMAIN GREETING_PATTERNS :
               /\ startswith(q, GREETING_PATTERNS[i])
               /\ Len(q) < Len(GREETING_PATTERNS[i]) + 20

AboutBotPhrases == <<
    <<"w","h","o"," ","a","r","e"," ","y","o","u">>, <<"w","h","a","t"," ","a","r","e"," ","y","o","u">>, <<"t","e","l","l"," ","m","e"," ","a","b","o","u","t"," ","y","o","u","r","s","e","l","f">>,
    <<"w","h","a","t"," ","c","a","n"," ","y","o","u"," ","d","o">>, <<"w","h","a","t"," ","d","o"," ","y","o","u"," ","d","o">>, <<"y","o","u","r"," ","n","a","m","e">>,
    <<"w","h","o"," ","i","n","v","e","n","t","e","d"," ","y","o","u">>, <<"w","h","o"," ","c","r","e","a","t","e","d"," ","y","o","u">>, <<"w","h","o"," ","m","a","d","e"," ","y","o","u">>,
    <<"w","h","o"," ","b","u","i","l","t"," ","y","o","u">>, <<"w","h","o"," ","d","e","v","e","l","o","p","e","d"," ","y","o","u">>, <<"w","h","o"," ","d","e","s","i","g","n","e","d"," ","y","o","u">>,
    <<"a","r","e"," ","y","o","u"," ","a","i">>, <<"a","r","e"," ","y","o","u"," ","a"," ","b","o","t">>, <<"a","r","e"," ","y","o","u"," ","h","u","m","a","n">>,
    <<"a","r","e"," ","y","o","u"," ","r","e","a","l">>, <<"a","r","e"," ","y","o","u"," ","c","h","a","t","g","p","t">>, <<"a","r","e"," ","y","o","u"," ","g","p","t">>,
    <<"w","h","a","t"," ","i","s"," ","b","a","b","y","j","a","y">>, <<"b","a","b","y","j","a","y"," ","a","b","o","u","t">>, <<"a","b","o","u","t"," ","b","a","b","y","j","a","y">> >>

_is_about_bot(query) == contains_any(AboutBotPhrases, lower(query))

_validate_query(query) ==
    /\ query # << >>
    /\ strip(query) # << >>
    /\ \E i \in DOMAIN query : isalnum_char(query[i])

simple_indicators == <<
    <<"h","i","s">>, <<"h","e","r">>, <<"t","h","e","i","r">>, <<"t","h","a","t">>, <<"t","h","i","s">>, <<"w","h","a","t"," ","a","b","o","u","t">>, <<"h","o","w"," ","a","b","o","u","t">>,
    <<"i","t","s">>, <<"i","t","'","s">>, <<"s","o","r","r","y">>, <<"m","y"," ","b","a","d">>, <<"a","c","t","u","a","l","l","y">>, <<"i"," ","m","e","a","n","t">>, <<"i"," ","m","e","a","n">>,
    <<"n","o"," ","w","a","i","t">>, <<"n","o","t"," ","t","h","a","t">>, <<"i","n","s","t","e","a","d">>, <<"o","o","p","s">>, <<"w","a","i","t"," ","n","o">>, <<"c","o","r","r","e","c","t","i","o","n">>,
    <<"n","o","t"," ","t","h","e">>, <<"n","o"," ","n","o","t">>, <<"i"," ","m","e","a","n","t">>, <<"t","h","a","t"," ","c","o","u","r","s","e">>, <<"t","h","i","s"," ","c","o","u","r","s","e">>,
    <<"t","h","e"," ","c","o","u","r","s","e">>, <<"a","b","o","u","t"," ","i","t">>, <<"a","b","o","u","t"," ","t","h","a","t">> >>

\* self is the session; history is the length of _conversation_history
_is_simple_followup(self, question) ==
    LET q == strip(lower(question))
    IN  IF Len(split(question)) > 8 THEN FALSE
        ELSE IF in_list(q, <<<<"i","t">>, <<"i","t","?">>>>) /\ self.history > 0 THEN TRUE
        ELSE contains_any(simple_indicators, q)

DepartmentFilterWords == <<<<"o","n","l","y">>, <<"j","u","s","t">>>>

DepartmentFilterKeywords == <<
    <<"e","e","c","s">>, <<"e","l","e","c","t","r","i","c","a","l">>, <<"c","o","m","p","u","t","e","r"," ","s","c","i","e","n","c","e">>, <<"b","u","s","i","n","e","s","s">>, <<"p","h","y","s","i","c","s">>,
    <<"c","h","e","m","i","s","t","r","y">>, <<"m","a","t","h">>, <<"e","n","g","i","n","e","e","r","i","n","g">>, <<"d","e","p","a","r","t","m","e","n","t">> >>

_is_department_filter(question) ==
    LET q == lower(question)
    IN  contains_any(DepartmentFilterWords, q) /\ contains_any(DepartmentFilterKeywords, q)

vague_terms == <<
    <<"p","r","o","f","e","s","s","o","r","s">>, <<"f","a","c","u","l","t","y">>, <<"r","e","s","e","a","r","c","h">>, <<"r","e","s","e","a","r","c","h","e","r","s">>,
    <<"c","o","u","r","s","e","s">>, <<"c","l","a","s","s","e","s">>, <<"t","e","a","c","h">>, <<"t","e","a","c","h","i","n","g">>,
    <<"h","e","l","p">>, <<"i","n","f","o">>, <<"i","n","f","o","r","m","a","t","i","o","n">> >>

VagueLocators == <<<<"h","e","r","e">>, <<"t","h","e","r","e">>, <<"a","v","a","i","l","a","b","l","e">>, <<"a","t">>, <<"k","u">>>>

_is_ambiguous(self, query) ==
    LET q == strip(lower(query))
        words == split(q)
    IN  IF _is_simple_followup(self, query) THEN FALSE
        ELSE IF _is_department_filter(query) THEN FALSE
        ELSE IF Len(words) >= 3 THEN FALSE
        ELSE IF in_list(q, vague_terms) THEN TRUE
        ELSE IF Len(words) = 2 /\ in_list(words[1], vague_terms)
             THEN in_list(words[2], VagueLocators)
        ELSE FALSE

\* The clarifying questions, named by what they ask for.
_generate_clarification_question(query) ==
    LET q == strip(lower(query))
    IN  IF in_list(q, <<<<"p","r","o","f","e","s","s","o","r","s">>, <<"f","a","c","u","l","t","y">>, <<"r","e","s","e","a","r","c","h","e","r","s">>>>) THEN "ASK_AREA_OR_DEPARTMENT"
        ELSE IF in_list(q, <<<<"r","e","s","e","a","r","c","h">>, <<"s","t","u","d","i","e","s">>>>) THEN "ASK_RESEARCH_TOPIC"
        ELSE IF in_list(q, <<<<"c","o","u","r","s","e","s">>, <<"c","l","a","s","s","e","s">>>>) THEN "ASK_SUBJECT_OR_DEPARTMENT"
        ELSE IF in_list(q, <<<<"h","e","l","p">>, <<"i","n","f","o">>, <<"i","n","f","o","r","m","a","t","i","o","n">>>>) THEN "ASK_WHAT_ABOUT"
        ELSE "ASK_MORE_DETAILS"

\* a check that lets the ambiguity handler take the input first
unambiguous_answer(self, query) ==
    self.waiting_for_clarification /\ Len(strip(query)) > 0 /\ ~_is_ambiguous(self, query)

_is_clarification_answer(self, query) ==
    self.waiting_for_clarification /\ Len(strip(query)) > 0

ClarificationDeptKeywords == <<
    <<"e","e","c","s">>, <<"b","u","s","i","n","e","s","s">>, <<"p","h","y","s","i","c","s">>, <<"c","h","e","m","i","s","t","r","y">>, <<"m","a","t","h">>, <<"e","n","g","i","n","e","e","r","i","n","g">>,
    <<"p","s","y","c","h","o","l","o","g","y">> >>

\* a combined query that drops the answer
combined_original(original_ambiguous_query, answer0) ==
    IF original_ambiguous_query = None THEN << >> ELSE strip(lower(original_ambiguous_query))

\* the combined query _process_clarification_answer builds
combined_query(original_ambiguous_query, answer0) ==
    LET original == IF original_ambiguous_query = None THEN << >>
                    ELSE strip(lower(original_ambiguous_query))
        answer == strip(answer0)
    IN  IF in_list(original, <<<<"p","r","o","f","e","s","s","o","r","s">>, <<"f","a","c","u","l","t","y">>, <<"r","e","s","e","a","r","c","h","e","r","s">>>>)
        THEN IF contains_any(ClarificationDeptKeywords, lower(answer))
             THEN join2(answer, original)
             ELSE join2(original, answer)
        ELSE IF in_list(original, <<<<"r","e","s","e","a","r","c","h">>, <<"c","o","u","r","s","e","s">>, <<"c","l","a","s","s","e","s">>>>)
        THEN join2(answer, original)
        ELSE join2(original, answer)

_extract_department(question) ==
    LET q == lower(question)
    IN  IF contains_any(<<<<"e","e","c","s">>, <<"c","o","m","p","u","t","e","r"," ","s","c","i","e","n","c","e">>, <<"e","l","e","c","t","r","i","c","a","l"," ","e","n","g","i","n","e","e","r","i","n","g">>, <<" ","c","s"," ">>>>, q)
        THEN <<"E","l","e","c","t","r","i","c","a","l"," ","E","n","g","i","n","e","e","r","i","n","g"," ","a","n","d"," ","C","o","m","p","u","t","e","r"," ","S","c","i","e","n","c","e">>
        ELSE IF contains(<<"b","u","s","i","n","e","s","s">>, q) THEN <<"S","c","h","o","o","l"," ","o","f"," ","B","u","s","i","n","e","s","s">>
        ELSE IF contains(<<"p","h","y","s","i","c","s">>, q) THEN <<"D","e","p","a","r","t","m","e","n","t"," ","o","f"," ","P","h","y","s","i","c","s"," ","a","n","d"," ","A","s","t","r","o","n","o","m","y">>
        ELSE IF contains(<<"c","h","e","m","i","s","t","r","y">>, q) \/ contains(<<" ","c","h","e","m"," ">>, q) THEN <<"D","e","p","a","r","t","m","e","n","t"," ","o","f"," ","C","h","e","m","i","s","t","r","y">>
        ELSE IF contains(<<"m","a","t","h">>, q) THEN <<"D","e","p","a","r","t","m","e","n","t"," ","o","f"," ","M","a","t","h","e","m","a","t","i","c","s">>
        ELSE IF contains(<<"p","s","y","c","h","o","l","o","g","y">>, q) \/ contains(<<" ","p","s","y","c","h"," ">>, q) THEN <<"D","e","p","a","r","t","m","e","n","t"," ","o","f"," ","P","s","y","c","h","o","l","o","g","y">>
        ELSE IF contains(<<"m","e","c","h","a","n","i","c","a","l">>, q) THEN <<"M","e","c","h","a","n","i","c","a","l"," ","E","n","g","i","n","e","e","r","i","n","g">>
        ELSE None

\* ---- cleaning and follow-ups
_needs_cleaning(query) ==
    \/ contains_any(<<<<"m","a","c","h","i","e","n">>, <<"m","a","c","h","i","e">>, <<"a","r","t","i","f","i","c","a","l">>, <<"r","o","b","t","i","c","s">>, <<"q","u","a","n","t","i","m">>,
                      <<"q","u","a","n","t","o","m">>, <<"p","r","o","f","e","s","o","r","s">>, <<"p","r","o","f","f","e","s","s","o","r">>, <<"r","e","s","e","a","c","h">>,
                      <<"c","o","m","p","t","e","r">>, <<" ","2"," ">>, <<" ","4"," ">>, <<" ","u"," ">>, <<" ","r"," ">>, <<" ","a","b","t"," ">>,
                      <<" ","w","n","t"," ">>, <<" ","n","o","e"," ">>, <<" ","w","a","t"," ">>, <<" "," ">>, <<"?","?","?">>, <<"!","!","!">>,
                      <<"a","v","i","l","a","b","l","e">>, <<"a","v","a","i","l","b","l","e">>>>, lower(query))
    \/ (contains(<<" ","p","r","o","f"," ">>, lower(query)) /\ Len(query) < 30)

\* the answer of the language model, stripped, when it is fit to replace the
\* query; None stands for a request that raised
llm_cleaned(query, llm_clean) ==
    IF llm_clean # None /\ strip(llm_clean) # << >> /\ Len(strip(llm_clean)) < Len(query) * 3
    THEN strip(llm_clean)
    ELSE query

clean_local(query, result, llm_clean) ==
    IF result.corrections # << >> /\ result.processed # query THEN result.processed
    ELSE llm_cleaned(query, llm_clean)

\* _clean_query_hybrid: the cleaned query.  llm_clean is the model's answer to
\* the cleaning request.
_clean_query_hybrid(query, llm_clean) ==
    IF ~_needs_cleaning(query) THEN query
    ELSE clean_local(query, preprocess({}, query), llm_clean)

\* _expand_followup_question.  rewritten is the model's rewriting, None when
\* the request fails.  The two messages of a saved turn make a history_text
\* longer than the ten characters asked of it.
_expand_followup_question(self, question, rewritten) ==
    IF ~_validate_query(question) \/ self.history = 0 \/ Len(strip(question)) < 3
    THEN question
    ELSE IF rewritten # None /\ strip(rewritten) # << >>
            /\ Len(strip(rewritten)) > Len(question)
    THEN strip(rewritten)
    ELSE question

\* ---- the department filter over a context
\* str.replace(old, "")
RECURSIVE removed(_, _, _, _)
removed(s, old, p, acc) ==
    IF p >= Len(s) \/ Len(acc) > Len(s) THEN acc
    ELSE IF follows(s, p, old) THEN removed(s, old, p + Len(old), acc)
    ELSE removed(s, old, p + 1, Append(acc, s[p + 1]))

\* line.strip().replace("Department:", "").strip()
current_dept(s) == strip(removed(s, <<"D","e","p","a","r","t","m","e","n","t",":">>, 0, << >>))

\* a test that takes every department for the one asked for
department_any(department, dept) == TRUE

\* department.lower() in current_dept.lower()
department_matches(department, dept) == contains(lower(department), lower(dept))

\* filtered_lines with the buffer when the block is to be kept
flushed(st) ==
    IF st.include_current THEN st.filtered_lines \o st.buffer ELSE st.filtered_lines

\* the body of the loop, for a line and its stripped form s
filter_line(st, line, s, department) ==
    IF s = <<"=","=","="," ","F","A","C","U","L","T","Y"," ","I","N","F","O","R","M","A","T","I","O","N"," ","=","=","=">>
    THEN [st EXCEPT !.filtered_lines = Append(@, line), !.include_current = FALSE]
    ELSE IF startswith(s, <<"=","=","=">>) /\ ~contains(<<"F","A","C","U","L","T","Y">>, line)
    THEN [filtered_lines |-> Append(flushed(st), line), buffer |-> << >>,
          include_current |-> FALSE]
    ELSE IF startswith(s, <<"P","r","o","f","e","s","s","o","r",":">>)
    THEN [filtered_lines |-> flushed(st), buffer |-> <<line>>, include_current |-> FALSE]
    ELSE IF startswith(s, <<"D","e","p","a","r","t","m","e","n","t",":">>)
    THEN [st EXCEPT !.buffer = Append(@, line),
                    !.include_current = department_matches(department, current_dept(s))]
    ELSE [st EXCEPT !.buffer = Append(@, line)]

\* the loop over the lines from the i-th on; st carries filtered_lines, buffer
\* and include_current
RECURSIVE filter_lines(_, _, _, _)
filter_lines(lines, i, department, st) ==
    IF i > Len(lines) \/ Len(st.filtered_lines) > Len(lines) THEN flushed(st)
    ELSE filter_lines(lines, i + 1, department,
                      filter_line(st, lines[i], strip(lines[i]), department))

_filter_context_by_department(context, department) ==
    IF context = NoContext
       \/ ~(\E i \in DOMAIN context : contains(<<"=","=","="," ","F","A","C","U","L","T","Y"," ","I","N","F","O","R","M","A","T","I","O","N"," ","=","=","=">>, context[i]))
    THEN context
    ELSE filter_lines(context, 1, department,
                      [filtered_lines |-> << >>, buffer |-> << >>,
                       include_current |-> FALSE])

TrackedKeywords == <<<<"p","r","o","f","e","s","s","o","r">>, <<"f","a","c","u","l","t","y">>, <<"r","e","s","e","a","r","c","h">>, <<"m","l">>, <<"a","i">>,
                     <<"m","a","c","h","i","n","e"," ","l","e","a","r","n","i","n","g">>>>

\* _save_message twice: the user's message and the assistant's
save_turn(self, use_history) ==
    IF use_history THEN [self EXCEPT !.history = @ + 2] ELSE self

\* ---- ask
\* What ask did at its search step: nothing, a department filter over the last
\* search, or a search; with the question it searched for, the last search
\* remembered before the turn, the department taken from the question, the
\* context the router found and the context that went to the language model
NoSearch == [branch |-> "none"]

Searched(branch, search_question, last_search_query, department, found, context) ==
    [branch |-> branch, search_question |-> search_question,
     last_search_query |-> last_search_query, department |-> department,
     found |-> found, context |-> context]

\* What a call of ask leaves behind: the session, the cache, the reply, and
\* what the turn did: the questions ask was entered with (asked), the queries
\* handed to router.route by ask itself (routed), the retriever calls the
\* router made for them (calls), the live requests (lookups), the codes a
\* topic resolved to (resolved), the pending clarifications it consumed
\* (merged, each <<original, answer>>), and its search step (search)
Turn(self, cache, kind, value, routed, calls, lookups, resolved, searched) ==
    [self |-> self, cache |-> cache, reply |-> [kind |-> kind, value |-> value],
     asked |-> << >>, routed |-> routed, calls |-> calls, lookups |-> lookups,
     resolved |-> resolved, merged |-> << >>, search |-> searched]

Canned(self, cache, kind) ==
    Turn(self, cache, kind, NoResponse, << >>, << >>, << >>, << >>, NoSearch)

\* lines 1283-1289 and 1325-1329: the reply of the live lookup
ask_lived(self, use_history, r) ==
    Turn(save_turn([self EXCEPT !.last_mentioned_course = r.last_mentioned_course,
                                !.router = r.router], use_history),
         r.cache, r.reply.kind, r.reply.value, << >>, << >>, r.lookups, r.resolved,
         NoSearch)

ask_live(self, cache, now, use_history, live_query_info, env) ==
    ask_lived(self, use_history,
              _handle_live_course_query(self.last_mentioned_course, self.router, cache,
                                        now, live_query_info, env.live))

\* lines 1370-1405: recent_context, then the answer of the model
ask_answered(self, cache, use_history, context, env, routed, calls, searched) ==
    IF env.llm_ok
    THEN Turn(save_turn(self, use_history), cache,
              IF context # NoContext THEN "answer" ELSE "answer_without_context",
              NoResponse, routed, calls, << >>, << >>, searched)
    ELSE Turn(self, cache, "llm_error", NoResponse, routed, calls, << >>, << >>, searched)

ask_llm(self, cache, use_history, context, env, routed, calls, searched) ==
    ask_answered(IF context # NoContext THEN [self EXCEPT !.recent_context = context]
                 ELSE self,
                 cache, use_history, context, env, routed, calls, searched)

\* lines 1300-1306: the last search with the department, filtered
ask_filtered(self, cache, use_history, search_question, env, department, search_query, context, results) ==
    ask_llm([self EXCEPT !.router = results.router], cache, use_history, context, env,
            <<search_query>>, results.calls,
            Searched("filter", search_question, self.last_search_query, department,
                     IF results.raised THEN NoContext ELSE results.context, context))

ask_refiltered(self, cache, use_history, search_question, env, department, search_query, results) ==
    ask_filtered(self, cache, use_history, search_question, env, department, search_query,
                 IF results.raised THEN NoContext
                 ELSE _filter_context_by_department(results.context, department),
                 results)

\* lines 1295-1307: a department filter over the last search
ask_department_filter(self, cache, use_history, search_question, env, department) ==
    IF department = None
    THEN ask_llm(self, cache, use_history, NoContext, env, << >>, << >>,
                 Searched("filter", search_question, self.last_search_query, None,
                          NoContext, NoContext))
    ELSE ask_refiltered(self, cache, use_history, search_question, env, department,
                        join2(self.last_search_query, department),
                        route(self.router, join2(self.last_search_query, department),
                              TRUE, env.route))

\* lines 1364-1368: the recent context for a follow-up that found nothing
ask_context(self, cache, use_history, search_question, env, routed, calls, context, last_search_query) ==
    ask_llm(self, cache, use_history, context, env, routed, calls,
            Searched("search", search_question, last_search_query, None, context,
                     context))

ask_found(self, cache, use_history, search_question, env, routed, calls, context, last_search_query) ==
    ask_context(self, cache, use_history, search_question, env, routed, calls,
                IF _is_simple_followup(self, search_question)
                   /\ self.recent_context # NoContext /\ context = NoContext
                THEN self.recent_context ELSE context,
                last_search_query)

\* lines 1352-1362: the retry with the KU prefix
ask_retried(self, cache, use_history, search_question, env, search_query, retry_query, results, retry_results, last_search_query) ==
    ask_found([self EXCEPT !.router = retry_results.router], cache, use_history,
              search_question, env, <<search_query, retry_query>>,
              results.calls \o retry_results.calls,
              IF retry_results.raised THEN NoContext ELSE retry_results.context,
              last_search_query)

\* lines 1338-1350: the search
ask_routed(self, cache, use_history, search_question, env, search_query, results, last_search_query) ==
    IF results.raised \/ results.context = NoContext
    THEN ask_retried(self, cache, use_history, search_question, env, search_query,
                     <<"K","U"," ">> \o search_query, results,
                     route(results.router, <<"K","U"," ">> \o search_query, TRUE, env.retry),
                     last_search_query)
    ELSE ask_found([self EXCEPT !.router = results.router], cache, use_history,
                   search_question, env, <<search_query>>, results.calls,
                   results.context, last_search_query)

\* lines 1334-1336: the faculty queries are remembered
ask_tracked(self, cache, use_history, search_question, env, search_query) ==
    ask_routed(IF contains_any(TrackedKeywords, lower(search_question))
               THEN [self EXCEPT !.last_search_query = search_query] ELSE self,
               cache, use_history, search_question, env, search_query,
               route(self.router, search_query, TRUE, env.route),
               self.last_search_query)

\* lines 1320-1329: the live lookup asked again of the expanded question
ask_rechecked(self, cache, now, use_history, search_question, env, expanded, live_query_info) ==
    IF live_query_info # NoLookup
    THEN ask_live(self, cache, now, use_history, live_query_info, env)
    ELSE ask_tracked(self, cache, use_history, search_question, env, expanded)

ask_expanded(self, cache, now, use_history, search_question, env, expanded) ==
    IF expanded # search_question
    THEN ask_rechecked(self, cache, now, use_history, search_question, env, expanded,
                       _needs_live_course_lookup(self.last_mentioned_course, expanded,
                                                 env.redetected))
    ELSE ask_tracked(self, cache, use_history, search_question, env, search_question)

\* lines 1308-1332: the expansion of a follow-up
ask_followup(self, cache, now, use_history, search_question, env) ==
    ask_expanded(self, cache, now, use_history, search_question, env,
                 IF _is_simple_followup(self, search_question) /\ use_history
                 THEN _expand_followup_question(self, search_question, env.rewritten)
                 ELSE search_question)

\* lines 1278-1295: the live lookup, the department filter, or the search
ask_searching(self, cache, now, use_history, search_question, env, live_query_info) ==
    IF live_query_info # NoLookup
    THEN ask_live(self, cache, now, use_history, live_query_info, env)
    ELSE IF _is_department_filter(search_question) /\ self.last_search_query # << >>
    THEN ask_department_filter(self, cache, use_history, search_question, env,
                               _extract_department(search_question))
    ELSE ask_followup(self, cache, now, use_history, search_question, env)

ask_prepared(self, cache, now, use_history, search_question, env) ==
    ask_searching(self, cache, now, use_history, search_question, env,
                  _needs_live_course_lookup(self.last_mentioned_course, search_question,
                                            env.detected))

\* lines 1263-1268: the preprocessor
ask_preprocessed(self, cache, now, use_history, cleaned, env, processed) ==
    ask_prepared(self, cache, now, use_history,
                 IF processed # << >> THEN processed ELSE cleaned, env)

ask_cleaned(self, cache, now, use_history, cleaned, env) ==
    ask_preprocessed(self, cache, now, use_history, cleaned, env,
                     preprocess({}, cleaned).processed)

RECURSIVE ask(_, _, _, _, _, _)

\* the turn of the merged query, with the clarification it consumed
merged_turn(turn, original_ambiguous_query, answer) ==
    [turn EXCEPT !.merged = <<<<original_ambiguous_query, strip(answer)>>>> \o @]

\* a merge that stops waiting but keeps the stored query
answer_kept(self, cache, now, answer, env) ==
    merged_turn(ask([self EXCEPT !.waiting_for_clarification = FALSE],
                    cache, now, combined_query(self.original_ambiguous_query, answer),
                    TRUE, env),
                self.original_ambiguous_query, answer)

\* a merge that clears the pending clarification but for its context
answer_context_kept(self, cache, now, answer, env) ==
    merged_turn(ask([self EXCEPT !.waiting_for_clarification = FALSE,
                                 !.original_ambiguous_query = None],
                    cache, now, combined_query(self.original_ambiguous_query, answer),
                    TRUE, env),
                self.original_ambiguous_query, answer)

\* _process_clarification_answer: merge, clear the pending clarification, ask
\* again
_process_clarification_answer(self, cache, now, answer, env) ==
    merged_turn(ask([self EXCEPT !.waiting_for_clarification = FALSE,
                                 !.original_ambiguous_query = None,
                                 !.clarification_context = None],
                    cache, now, combined_query(self.original_ambiguous_query, answer),
                    TRUE, env),
                self.original_ambiguous_query, answer)

\* lines 1228-1261, for the stripped question
ask_stripped(self, cache, now, question, use_history, env) ==
    IF _is_greeting(question) THEN Canned(self, cache, "greeting")
    ELSE IF _is_about_bot(question) THEN Canned(self, cache, "about_bot")
    ELSE IF _is_clarification_answer(self, question)
    THEN _process_clarification_answer(self, cache, now, question, env)
    ELSE IF _is_ambiguous(self, question)
    THEN Canned([self EXCEPT !.waiting_for_clarification = TRUE,
                             !.original_ambiguous_query = question,
                             !.clarification_context = question],
                cache, _generate_clarification_question(question))
    ELSE ask_cleaned(self, cache, now, use_history,
                     _clean_query_hybrid(question, env.llm_clean), env)

ask_entered(turn, question) == [turn EXCEPT !.asked = <<question>> \o @]

\* BabyJayChat.ask(question, use_history), with what the collaborators do
\* during the call
ask(self, cache, now, question, use_history, env) ==
    ask_entered(IF strip(question) = << >> THEN Canned(self, cache, "what_would_you_like")
                ELSE IF ~_validate_query(question) THEN Canned(self, cache, "rephrase")
                ELSE ask_stripped(self, cache, now, strip(question), use_history, env),
                question)

\* the collaborators of ask: the answers of the language model to the
\* cleaning, the rewriting and the final request, of the detector of intents
\* to the question and to its expansion, of the router's collaborators to the
\* search and to its retry, and of the live lookup
Env(llm_clean, rewritten, llm_ok, detected, redetected, routing, retry, live) ==
    [llm_clean |-> llm_clean, rewritten |-> rewritten, llm_ok |-> llm_ok,
     detected |-> detected, redetected |-> redetected, route |-> routing,
     retry |-> retry, live |-> live]

\* ------------------------------------------------------------ a session of the chat

\* ---- bounds
MaxTurns == 2

\* What the users type
Questions ==
    {<<"r","o","b","o","t","i","c","s"," ","f","a","c","u","l","t","y">>, <<"E","E","C","S"," ","o","n","l","y">>, <<"j","u","s","t"," ","e","n","g","i","n","e","e","r","i","n","g">>, <<"o","n","l","y"," ","b","u","s","i","n","e","s","s">>,
     <<"p","r","o","f","e","s","s","o","r","s">>, <<"r","e","s","e","a","r","c","h","e","r","s">>, <<"k","u">>, <<"h","e","l","l","o">>, <<"w","h","a","t"," ","a","b","o","u","t"," ","p","h","y","s","i","c","s">>,
     <<"w","h","o"," ","t","e","a","c","h","e","s"," ","E","E","C","S"," ","1","6","8">>}

\* The retrievers find faculty of two departments; they find nothing and the
\* vector store does; nothing is found anywhere
FoundByRetriever ==
    RouteEnv(Empty, {"search", "get_department_faculty", "search_by_name"},
             MixedFaculty, "empty")

FoundByVector == RouteEnv(Empty, {}, MixedFaculty, "records")

FoundNowhere == RouteEnv(Empty, {}, MixedFaculty, "search_raises")

\* the live lookup finds sections at the first request
SectionsFound == Live(1, {}, FoundByRetriever, TRUE)

\* What the collaborators do during a turn
ChatEnvs ==
    {Env(None, None, TRUE, NotDetected, NotDetected, FoundByRetriever, FoundByRetriever,
         SectionsFound),
     Env(None, <<"w","h","a","t"," ","a","b","o","u","t"," ","p","h","y","s","i","c","s"," ","p","r","o","f","e","s","s","o","r","s">>, TRUE, NotDetected, NotDetected,
         FoundByVector, FoundByVector, SectionsFound),
     Env(None, None, FALSE, NotDetected, NotDetected, FoundNowhere, FoundByVector,
         SectionsFound),
     Env(None, None, TRUE, NotDetected, NotDetected, FoundNowhere, FoundNowhere,
         SectionsFound),
     Env(None, None, TRUE, Detected(<<"P","o","t","t","e","r","y">>), NotDetected, FoundNowhere, FoundNowhere,
         Live(0, {}, FoundNowhere, TRUE))}

Init ==
    /\ bot = NewSession(0)
    /\ _smart_cache = EmptyCache
    /\ clock = 0
    /\ conversations = << >>
    /\ done = [op |-> "init", turns |-> 0]
    /\ rate_limiter = None

\* What a turn did, with the session before it
Asked(turns, before, question, turn) ==
    [op |-> "ask", turns |-> turns, before |-> before, question |-> question,
     reply |-> turn.reply, asked |-> turn.asked, routed |-> turn.routed,
     calls |-> turn.calls, lookups |-> turn.lookups, resolved |-> turn.resolved,
     merged |-> turn.merged, search |-> turn.search]

Answer(question, turn) ==
    /\ bot' = turn.self
    /\ _smart_cache' = turn.cache
    /\ done' = Asked(done.turns + 1, bot, question, turn)

\* bot.ask(question)
Ask ==
    /\ done.turns < MaxTurns
    /\ UNCHANGED <<clock, conversations>>
    /\ \E question \in Questions, env \in ChatEnvs :
          Answer(question, ask(bot, _smart_cache, clock, question, TRUE, env))
    /\ UNCHANGED rate_limiter

\* bot.clear_history()
ClearHistory ==
    /\ done.turns < MaxTurns
    /\ done.op = "ask"
    /\ bot' = clear_history(bot)
    /\ done' = [op |-> "clear_history", turns |-> done.turns]
    /\ UNCHANGED <<_smart_cache, clock, conversations>>
    /\ UNCHANGED rate_limiter

Next == Ask \/ ClearHistory

Spec == Init /\ [][Next]_vars

\* ------------------------------------------------------------ the clarification dialogue

\* ---- bounds
MaxDialogue == 3

\* What the users type in the dialogue: vague nouns, and answers to the
\* clarifying questions
DialogueQuestions ==
    {<<"p","r","o","f","e","s","s","o","r","s">>, <<"r","e","s","e","a","r","c","h">>, <<"c","o","u","r","s","e","s">>, <<"k","u">>, <<"e","e","c","s">>, <<"r","o","b","o","t","i","c","s">>, <<"h","e","l","l","o">>}

\* the retrievers find faculty
DialogueEnv ==
    Env(None, None, TRUE, NotDetected, NotDetected, FoundByRetriever, FoundByRetriever,
        SectionsFound)

\* bot.ask(question), a turn of the dialogue
Converse ==
    /\ done.turns < MaxDialogue
    /\ UNCHANGED <<clock, conversations>>
    /\ \E question \in DialogueQuestions :
          Answer(question, ask(bot, _smart_cache, clock, question, TRUE, DialogueEnv))
    /\ UNCHANGED rate_limiter

NextDialogue == Converse

SpecDialogue == Init /\ [][NextDialogue]_vars

\* ------------------------------------------------------------ api_routes.py: POST /chat

\* ---- bounds
MaxRequests == 2

\* get_recent_messages(conversation_id, limit=20)
RecentLimit == 20

\* What the clients send
ApiMessages == {<<"p","r","o","f","e","s","s","o","r","s">>, <<"r","o","b","o","t","i","c","s"," ","f","a","c","u","l","t","y">>, <<"r","o","b","o","t","i","c","s">>, <<"k","u">>, <<"h","e","l","l","o">>, << >>}

\* What the collaborators do during a request
ApiEnvs ==
    {Env(None, None, TRUE, NotDetected, NotDetected, FoundByRetriever, FoundByRetriever,
         SectionsFound),
     Env(None, None, TRUE, NotDetected, NotDetected, FoundNowhere, FoundNowhere,
         SectionsFound)}

\* db.create_conversation: the id of the new row is its place in the table
create_conversation(db) == Append(db, << >>)

\* db.add_message
add_message(db, conversation_id, role, content) ==
    [db EXCEPT ![conversation_id] = Append(@, [role |-> role, content |-> content])]

\* db.get_recent_messages: the last limit messages, oldest first
get_recent_messages(db, conversation_id, limit) ==
    IF Len(db[conversation_id]) <= limit THEN db[conversation_id]
    ELSE SubSeq(db[conversation_id], Len(db[conversation_id]) - limit + 1,
                Len(db[conversation_id]))

\* the response, after the reply is saved
chat_answered(db, conversation_id, turn) ==
    [status |-> 200, conversation_id |-> conversation_id,
     db |-> add_message(db, conversation_id, "assistant", turn.reply.kind),
     cache |-> turn.cache, reply |-> turn.reply, asked |-> turn.asked,
     merged |-> turn.merged, routed |-> turn.routed]

\* a new BabyJayChat with the recent messages but the last as its history,
\* and its answer
chat_instance(db, conversation_id, message, cache, now, env, recent_messages) ==
    chat_answered(db, conversation_id,
                  ask(NewSession(Len(recent_messages) - 1), cache, now, message, TRUE, env))

\* after the message of the user is saved
chat_saved(db, conversation_id, message, cache, now, env) ==
    chat_instance(db, conversation_id, message, cache, now, env,
                  get_recent_messages(db, conversation_id, RecentLimit))

\* chat(request): conversation_id 0 is a request without one
chat(message, conversation_id, db, cache, now, env) ==
    IF conversation_id = 0
    THEN chat_saved(add_message(create_conversation(db), Len(db) + 1, "user", message),
                    Len(db) + 1, message, cache, now, env)
    ELSE IF conversation_id \notin DOMAIN db
    THEN [status |-> 404, conversation_id |-> conversation_id, db |-> db, cache |-> cache]
    ELSE chat_saved(add_message(db, conversation_id, "user", message),
                    conversation_id, message, cache, now, env)

InitApi ==
    /\ bot = None
    /\ _smart_cache = EmptyCache
    /\ clock = 0
    /\ conversations = << >>
    /\ done = [op |-> "init", requests |-> 0]
    /\ rate_limiter = None

\* What a request did
Responded(requests, message, response) ==
    [op |-> "api_chat", requests |-> requests, message |-> message] @@ response

Respond(message, response) ==
    /\ _smart_cache' = response.cache
    /\ conversations' = response.db
    /\ done' = Responded(done.requests + 1, message, [response EXCEPT !.db = << >>])

\* POST /api/chat
ApiChat ==
    /\ done.requests < MaxRequests
    /\ UNCHANGED <<bot, clock>>
    /\ \E message \in ApiMessages, conversation_id \in 0..(Len(conversations) + 1),
          env \in ApiEnvs :
          Respond(message, chat(message, conversation_id, conversations, _smart_cache,
                                clock, env))
    /\ UNCHANGED rate_limiter

NextApi == ApiChat

SpecApi == InitApi /\ [][NextApi]_vars

\* ------------------------------------------------------------ the format functions of the retrievers

\* str(i) of a number below 1000
numeral(i) ==
    IF i < 10 THEN <<Digits[i + 1]>>
    ELSE IF i < 100 THEN <<Digits[(i \div 10) + 1], Digits[(i % 10) + 1]>>
    ELSE <<Digits[(i \div 100) + 1], Digits[((i \div 10) % 10) + 1], Digits[(i % 10) + 1]>>

\* courses[:15]
CourseContextCap == 15

\* seq[:limit]
first_of(seq, limit) == IF Len(seq) <= limit THEN seq ELSE SubSeq(seq, 1, limit)

\* "\n".join(lines), the lines of an f-string being lines of the context
RECURSIVE joined_blocks(_, _, _, _)
joined_blocks(block(_), items, i, acc) ==
    IF i > Len(items) \/ Len(acc) = 0 THEN acc
    ELSE joined_blocks(block, items, i + 1, acc \o block(items[i]))

\* CourseRetriever.format_for_context: one block for each course
course_block(c) ==
    <<<< >>, <<"C","o","u","r","s","e",":"," ">> \o c.course_code \o <<" ","-"," ","U","n","k","n","o","w","n">>, <<"C","r","e","d","i","t","s",":"," ","N","/","A">>,
      <<"L","e","v","e","l",":"," ","N","/","A">>, <<"S","c","h","o","o","l",":"," ","N","/","A">>, <<"D","e","s","c","r","i","p","t","i","o","n",":"," ","N","/","A">>, <<"P","r","e","r","e","q","u","i","s","i","t","e","s",":"," ","N","o","n","e">>, << >>>>

course_format_for_context(courses) ==
    IF courses = << >> THEN NoContext
    ELSE joined_blocks(course_block, first_of(courses, CourseContextCap), 1,
                       <<<<"=","=","="," ","C","O","U","R","S","E"," ","I","N","F","O","R","M","A","T","I","O","N"," ","=","=","=">>>>)

\* FacultyRetriever.format_for_context
faculty_block(f) ==
    <<<< >>, <<"P","r","o","f","e","s","s","o","r",":"," ">> \o f.name, <<"D","e","p","a","r","t","m","e","n","t",":"," ">> \o f.department, <<"E","m","a","i","l",":"," ","N","/","A">>,
      <<"P","h","o","n","e",":"," ","N","/","A">>, <<"O","f","f","i","c","e",":"," ","N","/","A">>, <<"P","r","o","f","i","l","e",":"," ","N","/","A">>, <<"R","e","s","e","a","r","c","h",":"," ">>>>

faculty_format_for_context(faculty_list) ==
    IF faculty_list = << >> THEN NoContext
    ELSE joined_blocks(faculty_block, faculty_list, 1, <<<<"=","=","="," ","F","A","C","U","L","T","Y"," ","I","N","F","O","R","M","A","T","I","O","N"," ","=","=","=">>>>)

\* CampusRetriever.format_dining_context
dining_block(loc) ==
    <<<< >>, <<"N","a","m","e",":"," ">> \o loc.name, <<"B","u","i","l","d","i","n","g",":"," ","N","/","A">>, <<"A","d","d","r","e","s","s",":"," ","N","/","A">>, <<"T","y","p","e",":"," ","N","/","A">>,
      <<"D","e","s","c","r","i","p","t","i","o","n",":"," ","N","/","A">>, <<"H","o","u","r","s",":"," ","M","o","n","-","F","r","i",":"," ","N","/","A",","," ","S","a","t","-","S","u","n",":"," ","N","/","A">>>>

format_dining_context(locations) ==
    IF locations = << >> THEN NoContext
    ELSE joined_blocks(dining_block, locations, 1, <<<<"=","=","="," ","D","I","N","I","N","G"," ","I","N","F","O","R","M","A","T","I","O","N"," ","=","=","=">>>>)

\* CampusRetriever.format_transit_context
transit_block(route_record) ==
    <<<< >>, <<"R","o","u","t","e",":"," ">> \o route_record.route_number \o <<" ","-"," ","U","n","k","n","o","w","n">>,
      <<"D","e","s","c","r","i","p","t","i","o","n",":"," ","N","/","A">>, <<"O","p","e","r","a","t","e","s",":"," ","N","/","A">>, <<"S","e","r","v","e","s"," ","K","U",":"," ","N","o">>, <<"C","a","m","p","u","s"," ","O","n","l","y",":"," ","N","o">>>>

format_transit_context(routes) ==
    IF routes = << >> THEN NoContext
    ELSE joined_blocks(transit_block, routes, 1, <<<<"=","=","="," ","T","R","A","N","S","I","T"," ","I","N","F","O","R","M","A","T","I","O","N"," ","=","=","=">>>>)

\* CampusRetriever.format_housing_context
housing_block(h) ==
    IF h.type = "general_info"
    THEN <<<< >>, <<"G","e","n","e","r","a","l"," ","I","n","f","o","r","m","a","t","i","o","n",":">>, <<"D","e","s","c","r","i","p","t","i","o","n",":"," ","N","/","A">>, <<"A","p","p","l","i","c","a","t","i","o","n"," ","F","e","e",":"," ","N","/","A">>,
           <<"D","i","n","i","n","g"," ","P","l","a","n"," ","R","e","q","u","i","r","e","d",":"," ","N","/","A">>>>
    ELSE <<<< >>, <<"N","a","m","e",":"," ">> \o h.name, <<"C","a","t","e","g","o","r","y",":"," ","N","/","A">>, <<"T","y","p","e",":"," ","h","a","l","l">>,
           <<"R","o","o","m"," ","T","y","p","e","s",":"," ","N","/","A">>, <<"B","a","t","h",":"," ","N","/","A">>, <<"R","a","t","e","s",":"," ">>>>

format_housing_context(housing) ==
    IF housing = << >> THEN NoContext
    ELSE joined_blocks(housing_block, housing, 1, <<<<"=","=","="," ","H","O","U","S","I","N","G"," ","I","N","F","O","R","M","A","T","I","O","N"," ","=","=","=">>>>)

\* CampusRetriever.format_tuition_context: a line for each fee, under a line
\* for its category when that changes
RECURSIVE tuition_lines(_, _, _, _)
tuition_lines(fees, i, current_category, acc) ==
    IF i > Len(fees) \/ Len(acc) = 0 THEN acc
    ELSE tuition_lines(fees, i + 1, fees[i].category,
                       (IF fees[i].category # current_category
                        THEN Append(acc, << >>) \o <<<<"[">> \o fees[i].category \o <<"]">>>>
                        ELSE acc)
                       \o <<<<" "," ">> \o fees[i].item \o <<":"," ","N","/","A">>>>)

format_tuition_context(fees) ==
    IF fees = << >> THEN NoContext
    ELSE tuition_lines(fees, 1, None, <<<<"=","=","="," ","T","U","I","T","I","O","N"," ","&"," ","F","E","E","S"," ","I","N","F","O","R","M","A","T","I","O","N"," ","=","=","=">>>>)

\* the format function of each domain
Domains == {"course", "faculty", "dining", "transit", "housing", "tuition"}

format_context(domain, list) ==
    IF domain = "course" THEN course_format_for_context(list)
    ELSE IF domain = "faculty" THEN faculty_format_for_context(list)
    ELSE IF domain = "dining" THEN format_dining_context(list)
    ELSE IF domain = "transit" THEN format_transit_context(list)
    ELSE IF domain = "housing" THEN format_housing_context(list)
    ELSE format_tuition_context(list)

\* ------------------------------------------------------------ the format functions on their own

\* ---- bounds
MaxRecords == 16

\* the i-th record of a domain
record_of(domain, i) ==
    IF domain = "course" THEN [course_code |-> <<"E","E","C","S"," ">> \o numeral(i)]
    ELSE IF domain = "faculty"
    THEN [name |-> numeral(i), department |-> <<"D","e","p","a","r","t","m","e","n","t"," ","o","f"," ","P","h","y","s","i","c","s"," ","a","n","d"," ","A","s","t","r","o","n","o","m","y">>]
    ELSE IF domain = "dining" THEN [name |-> numeral(i)]
    ELSE IF domain = "transit" THEN [route_number |-> numeral(i)]
    ELSE IF domain = "housing"
    THEN [name |-> numeral(i), type |-> IF i = 1 THEN "general_info" ELSE "hall"]
    ELSE [item |-> numeral(i), category |-> IF i % 2 = 1 THEN <<"T","u","i","t","i","o","n">> ELSE <<"F","e","e","s">>]

record_list(domain, n) == [i \in 1..n |-> record_of(domain, i)]

InitFormat ==
    /\ bot = None
    /\ _smart_cache = None
    /\ clock = 0
    /\ conversations = << >>
    /\ \E domain \in Domains, n \in 0..MaxRecords :
          done = [op |-> "input", domain |-> domain, list |-> record_list(domain, n)]
    /\ rate_limiter = None

\* the format function of the domain, on the list
FormatContext ==
    /\ done.op = "input"
    /\ done' = [op |-> "format", domain |-> done.domain, list |-> done.list,
                context |-> format_context(done.domain, done.list)]
    /\ UNCHANGED <<bot, _smart_cache, clock, conversations>>
    /\ UNCHANGED rate_limiter

NextFormat == FormatContext

SpecFormat == InitFormat /\ [][NextFormat]_vars

\* ------------------------------------------------------------ the dataset files and the retrievers that load them

\* a dataset file is there and is JSON, is not there, or is there and is not JSON
FileStates == {"ok", "missing", "malformed"}

\* what a call gave: the value it returned or the exception it raised
Gave(value) == [raised |-> "None", value |-> value]
Raises(exception) == [raised |-> exception, value |-> << >>]

\* open(path) and json.load(f)
json_load(file_state, data) ==
    IF file_state = "missing" THEN Raises("FileNotFoundError")
    ELSE IF file_state = "malformed" THEN Raises("JSONDecodeError")
    ELSE Gave(data)

\* the records a dataset file holds
DatasetRecords == 2
dataset(domain) == record_list(domain, DatasetRecords)

\* FacultyRetriever.__init__: the combined file has to exist
FacultyRetriever(files) ==
    IF files["faculty"] = "missing" THEN Raises("FileNotFoundError")
    ELSE Gave("FacultyRetriever")

\* CampusRetriever.__init__ and CourseRetriever.__init__ read no file
CampusRetriever(files) == Gave("CampusRetriever")
CourseRetriever(files) == Gave("CourseRetriever")

\* QueryRouter.__init__: the retrievers, one after the other
QueryRouter(files) ==
    IF FacultyRetriever(files).raised # "None" THEN FacultyRetriever(files)
    ELSE IF CampusRetriever(files).raised # "None" THEN CampusRetriever(files)
    ELSE IF CourseRetriever(files).raised # "None" THEN CourseRetriever(files)
    ELSE Gave("QueryRouter")

\* FacultyRetriever._load_data
_load_data(files) == json_load(files["faculty"], dataset("faculty"))

\* CourseRetriever._load_all_courses
_load_all_courses(files) == json_load(files["course"], dataset("course"))

\* CampusRetriever._load_json: a file that does not exist is an empty dict
_load_json(files, domain) ==
    IF files[domain] = "missing" THEN Gave(<< >>)
    ELSE json_load(files[domain], dataset(domain))

\* the search of the retriever of a domain, each of them loading first
search_domain(files, domain) ==
    IF domain = "faculty" THEN _load_data(files)
    ELSE IF domain = "course" THEN _load_all_courses(files)
    ELSE _load_json(files, domain)

\* QueryRouter._route_<domain>: the search, then the format function
formatted(domain, searched) ==
    IF searched.raised # "None" THEN searched
    ELSE Gave([results |-> searched.value,
                   context |-> format_context(domain, searched.value),
                   result_count |-> Len(searched.value)])

route_domain(files, domain) == formatted(domain, search_domain(files, domain))

\* ------------------------------------------------------------ the router over dataset files

\* ---- bounds
MaxRoutes == 2

\* at most one of the files is damaged
FileSystems ==
    {files \in [Domains -> FileStates] :
        Cardinality({domain \in Domains : files[domain] # "ok"}) <= 1}

InitLoad ==
    /\ bot = None
    /\ _smart_cache = None
    /\ clock = 0
    /\ conversations = << >>
    /\ \E files \in FileSystems :
          done = [op |-> "input", files |-> files, routes |-> 0]
    /\ rate_limiter = None

\* router = QueryRouter()
Construct ==
    /\ done.op = "input"
    /\ done' = [op |-> "construct", files |-> done.files, routes |-> 0,
                constructed |-> QueryRouter(done.files)]
    /\ UNCHANGED <<bot, _smart_cache, clock, conversations>>
    /\ UNCHANGED rate_limiter

\* router.route(query), the query being one of a domain
RouteDomain ==
    /\ done.op \in {"construct", "route"}
    /\ done.constructed.raised = "None"
    /\ done.routes < MaxRoutes
    /\ \E domain \in Domains :
          done' = [op |-> "route", files |-> done.files, routes |-> done.routes + 1,
                   constructed |-> done.constructed, domain |-> domain,
                   routed |-> route_domain(done.files, domain)]
    /\ UNCHANGED <<bot, _smart_cache, clock, conversations>>
    /\ UNCHANGED rate_limiter

NextLoad == Construct \/ RouteDomain

SpecLoad == InitLoad /\ [][NextLoad]_vars

\* ------------------------------------------------------------ retriever.py: the faculty of smart_search

\* FacultySearcher.search, the loop over the documents the collection gave:
\* those of the department, until there are top_k
RECURSIVE searcher_results(_, _, _, _, _)
searcher_results(documents, i, top_k, department_filter, formatted_results) ==
    IF i > Len(documents) \/ Len(formatted_results) >= top_k THEN formatted_results
    ELSE searcher_results(documents, i + 1, top_k, department_filter,
             IF department_filter # None
                /\ ~contains(lower(department_filter), lower(documents[i].department))
             THEN formatted_results
             ELSE Append(formatted_results, documents[i]))

\* FacultySearcher.search: the collection gives the fetch_k nearest documents
\* of its ranking for the query
faculty_searcher_search(ranking, top_k, department_filter) ==
    searcher_results(first_of(ranking, IF department_filter # None THEN top_k * 10 ELSE top_k),
                     1, top_k, department_filter, << >>)

\* Retriever.search_faculty_enhanced: content and metadata of each result
enhanced(r) ==
    [content |-> <<<<"P","r","o","f","e","s","s","o","r",":"," ">> \o r.name, <<" "," "," "," "," "," "," "," "," "," "," "," "," "," "," "," ","D","e","p","a","r","t","m","e","n","t",":"," ">> \o r.department>>,
     metadata |-> [source |-> "faculty", name |-> r.name, department |-> r.department]]

search_faculty_enhanced(ranking, n_results, department) ==
    [i \in DOMAIN faculty_searcher_search(ranking, n_results, department) |->
        enhanced(faculty_searcher_search(ranking, n_results, department)[i])]

\* the loop that keeps the first record of each name
RECURSIVE deduped_by_name(_, _, _)
deduped_by_name(merged, i, deduped) ==
    IF i > Len(merged) \/ Len(deduped) >= i THEN deduped
    ELSE deduped_by_name(merged, i + 1,
             IF \E k \in DOMAIN deduped : deduped[k].metadata.name = merged[i].metadata.name
             THEN deduped ELSE Append(deduped, merged[i]))

\* the fallback: the search without the filter is made, and the loop runs
\* over merged once more
faculty_fallback(merged, fallback_results, n_results) ==
    first_of(deduped_by_name(merged, 1, << >>), n_results)

faculty_deduped(ranking, research_topic, n_results, dept_filter, merged, faculty) ==
    IF faculty = << >> /\ dept_filter # None
    THEN faculty_fallback(merged, search_faculty_enhanced(ranking, n_results, None), n_results)
    ELSE faculty

faculty_merged(ranking, research_topic, n_results, dept_filter, merged) ==
    faculty_deduped(ranking, research_topic, n_results, dept_filter, merged,
                    first_of(deduped_by_name(merged, 1, << >>), n_results))

\* smart_search, the block `if is_faculty`: results["faculty"]
smart_search_faculty(ranking, research_topic, n_results, dept_filter) ==
    faculty_merged(ranking, research_topic, n_results, dept_filter,
                   search_faculty_enhanced(ranking, n_results, dept_filter))

\* ------------------------------------------------------------ smart_search on its own

\* ---- bounds
MaxRanking == 3

\* the documents of the faculty collection; one name is in two departments
FacultyDocuments ==
    {[name |-> <<"A","n","n">>, department |-> <<"D","e","p","a","r","t","m","e","n","t"," ","o","f"," ","P","h","y","s","i","c","s"," ","a","n","d"," ","A","s","t","r","o","n","o","m","y">>],
     [name |-> <<"A","n","n">>, department |-> <<"D","e","p","a","r","t","m","e","n","t"," ","o","f"," ","M","a","t","h","e","m","a","t","i","c","s">>],
     [name |-> <<"B","o">>, department |-> <<"E","l","e","c","t","r","i","c","a","l"," ","E","n","g","i","n","e","e","r","i","n","g"," ","a","n","d"," ","C","o","m","p","u","t","e","r"," ","S","c","i","e","n","c","e">>],
     [name |-> <<"C","y">>, department |-> <<"S","c","h","o","o","l"," ","o","f"," ","B","u","s","i","n","e","s","s">>]}

\* the rankings the collection may give for a topic: documents, each once
Rankings ==
    {ranking \in UNION {[1..n -> FacultyDocuments] : n \in 0..MaxRanking} :
        \A i, k \in DOMAIN ranking : i # k => ranking[i] # ranking[k]}

\* what _extract_department_and_topic gives for the queries "robotics
\* professors", "eecs robotics professors", "physics robotics professors",
\* "business robotics professors"
DeptFilters == {None, <<"E","l","e","c","t","r","i","c","a","l">>, <<"P","h","y","s","i","c","s">>, <<"B","u","s","i","n","e","s","s">>}

\* n_results: the default, and 50 of a query that wants a complete list
NResults == {5, 50}

InitSmart ==
    /\ bot = None
    /\ _smart_cache = None
    /\ clock = 0
    /\ conversations = << >>
    /\ \E ranking \in Rankings, dept_filter \in DeptFilters, n_results \in NResults :
          done = [op |-> "input", ranking |-> ranking, dept_filter |-> dept_filter,
                  research_topic |-> <<"r","o","b","o","t","i","c","s">>, n_results |-> n_results]
    /\ rate_limiter = None

\* retriever.smart_search(query) of a faculty query
SmartSearch ==
    /\ done.op = "input"
    /\ done' = [op |-> "smart_search", ranking |-> done.ranking,
                dept_filter |-> done.dept_filter, research_topic |-> done.research_topic,
                n_results |-> done.n_results,
                faculty |-> smart_search_faculty(done.ranking, done.research_topic,
                                                 done.n_results, done.dept_filter)]
    /\ UNCHANGED <<bot, _smart_cache, clock, conversations>>
    /\ UNCHANGED rate_limiter

NextSmart == SmartSearch

SpecSmart == InitSmart /\ [][NextSmart]_vars

\* ------------------------------------------------------------ the cache on its own

\* ---- bounds
MaxCacheOps == 3

\* the times at which the cache is used: around the two TTLs
CacheTimes == {0, DATA_TTL - 1, DATA_TTL, RESPONSE_TTL - 1, RESPONSE_TTL}

\* one course in two spellings, which make one key
CachedCourses == {<<"E","E","C","S"," ","1","6","8">>, <<"e","e","c","s","1","6","8">>}

CachedData ==
    {[success |-> TRUE, total_sections |-> n, career |-> "Undergraduate",
      query |-> <<"E","E","C","S"," ","1","6","8">>] : n \in {1, 2}}

CachedResponses ==
    {[text |-> text, course |-> <<"E","E","C","S"," ","1","6","8">>, career |-> "Undergraduate"] :
        text \in {"formatted", "raw"}}

\* two queries of one query type
CachedQueries == {<<"w","h","o"," ","t","e","a","c","h","e","s"," ","i","t">>, <<"w","h","i","c","h"," ","p","r","o","f","e","s","s","o","r">>}

\* What a call of the cache did, and when; stored holds, for each key, the
\* value last stored and the time of the call that stored it
CacheCall(op, key, got, stored) ==
    [op |-> op, ops |-> done.ops + 1, now |-> clock, key |-> key, got |-> got,
     stored |-> stored]

InitCache ==
    /\ bot = None
    /\ _smart_cache = EmptyCache
    /\ clock = 0
    /\ conversations = << >>
    /\ done = [op |-> "init", ops |-> 0, stored |-> << >>]
    /\ rate_limiter = None

\* _smart_cache.get_data(course, career)
CacheGetData ==
    /\ done.ops < MaxCacheOps
    /\ \E course \in CachedCourses :
          /\ _smart_cache' = get_data(_smart_cache, course, "Undergraduate", clock).cache
          /\ done' = CacheCall("get_data", _make_data_key(course, "Undergraduate"),
                               get_data(_smart_cache, course, "Undergraduate", clock),
                               done.stored)
    /\ UNCHANGED <<bot, clock, conversations>>
    /\ UNCHANGED rate_limiter

\* _smart_cache.set_data(course, career, data)
CacheSetData ==
    /\ done.ops < MaxCacheOps
    /\ \E course \in CachedCourses, data \in CachedData :
          /\ _smart_cache' = set_data(_smart_cache, course, "Undergraduate", data, clock)
          /\ done' = CacheCall("set_data", _make_data_key(course, "Undergraduate"),
                               Got(data, FALSE, _smart_cache),
                               put(done.stored, _make_data_key(course, "Undergraduate"),
                                   [value |-> data, at |-> clock]))
    /\ UNCHANGED <<bot, clock, conversations>>
    /\ UNCHANGED rate_limiter

\* _smart_cache.get_response(course, career, query)
CacheGetResponse ==
    /\ done.ops < MaxCacheOps
    /\ \E course \in CachedCourses, query \in CachedQueries :
          /\ _smart_cache' =
                get_response(_smart_cache, course, "Undergraduate", query, clock).cache
          /\ done' = CacheCall("get_response",
                               _make_response_key(course, "Undergraduate",
                                                  _extract_query_type(query)),
                               get_response(_smart_cache, course, "Undergraduate", query, clock),
                               done.stored)
    /\ UNCHANGED <<bot, clock, conversations>>
    /\ UNCHANGED rate_limiter

\* _smart_cache.set_response(course, career, query, response)
CacheSetResponse ==
    /\ done.ops < MaxCacheOps
    /\ \E course \in CachedCourses, query \in CachedQueries, response \in CachedResponses :
          /\ _smart_cache' =
                set_response(_smart_cache, course, "Undergraduate", query, response, clock)
          /\ done' = CacheCall("set_response",
                               _make_response_key(course, "Undergraduate",
                                                  _extract_query_type(query)),
                               Got(response, FALSE, _smart_cache),
                               put(done.stored,
                                   _make_response_key(course, "Undergraduate",
                                                      _extract_query_type(query)),
                                   [value |-> response, at |-> clock]))
    /\ UNCHANGED <<bot, clock, conversations>>
    /\ UNCHANGED rate_limiter

\* time passes, to a later one of the times
CacheTick ==
    /\ \E later \in CacheTimes : later > clock /\ clock' = later
    /\ UNCHANGED <<bot, _smart_cache, conversations, done>>
    /\ UNCHANGED rate_limiter

NextCache ==
    CacheGetData \/ CacheSetData \/ CacheGetResponse \/ CacheSetResponse \/ CacheTick

SpecCache == InitCache /\ [][NextCache]_vars

\* ------------------------------------------------------------ course_retriever.py: the searches over the dataset

\* self._subject_index.get(subject_upper, [])[:limit]
search_by_subject(courses, subject, limit) ==
    first_of(SelectSeq(courses, LAMBDA c : upper(c.subject) = upper(subject)), limit)

\* [c for c in results if c.get("level", "").lower() == level.lower()]
level_filtered(results, level) ==
    SelectSeq(results, LAMBDA c : lower(c.level) = lower(level))

\* the weights of the fields a course of the dataset has
score_fields == <<<<"course_code", 10>>, <<"subject", 6>>, <<"level", 5>>>>

\* the value of a field, lower-cased
field_lower(course, field) == lower(course[field])

\* one term against one field: the weight, and half of it more for a whole word
term_score(value_lower, term, weight) ==
    IF ~contains(term, value_lower) THEN 0
    ELSE weight + (IF search(<<B, Lit({term}), B>>, value_lower) THEN weight \div 2 ELSE 0)

RECURSIVE terms_score(_, _, _, _)
terms_score(value_lower, query_terms, weight, i) ==
    IF i > Len(query_terms) THEN 0
    ELSE term_score(value_lower, query_terms[i], weight)
         + terms_score(value_lower, query_terms, weight, i + 1)

RECURSIVE fields_score(_, _, _)
fields_score(course, query_terms, i) ==
    IF i > Len(score_fields) THEN 0
    ELSE terms_score(field_lower(course, score_fields[i][1]), query_terms,
                     score_fields[i][2], 1)
         + fields_score(course, query_terms, i + 1)

\* the four level bonuses
level_score(level, full_query) ==
    (IF contains(<<"u","n","d","e","r","g","r","a","d","u","a","t","e">>, full_query) /\ level = <<"u","n","d","e","r","g","r","a","d","u","a","t","e">> THEN 5 ELSE 0)
    + (IF contains(<<"g","r","a","d","u","a","t","e">>, full_query) /\ level = <<"g","r","a","d","u","a","t","e">> THEN 5 ELSE 0)
    + (IF contains(<<"g","r","a","d"," ">>, full_query) /\ level = <<"g","r","a","d","u","a","t","e">> THEN 5 ELSE 0)
    + (IF contains(<<"u","n","d","e","r","g","r","a","d">>, full_query) /\ level = <<"u","n","d","e","r","g","r","a","d","u","a","t","e">> THEN 5 ELSE 0)

\* CourseRetriever._score_course
_score_course(course, query_terms, full_query) ==
    fields_score(course, query_terms, 1) + level_score(lower(course.level), full_query)

\* scored_results.sort(key=lambda x: x[0], reverse=True): the courses with a
\* score, the highest first, those of one score in the order of the dataset
RECURSIVE by_score(_, _, _, _, _)
by_score(courses, query_terms, full_query, left, sorted) ==
    IF left = {} \/ Len(sorted) > Len(courses) THEN sorted
    ELSE by_score(courses, query_terms, full_query,
                  left \ {CHOOSE i \in left : \A k \in left :
                      \/ _score_course(courses[k], query_terms, full_query)
                            < _score_course(courses[i], query_terms, full_query)
                      \/ _score_course(courses[k], query_terms, full_query)
                            = _score_course(courses[i], query_terms, full_query) /\ i <= k},
                  Append(sorted, courses[CHOOSE i \in left : \A k \in left :
                      \/ _score_course(courses[k], query_terms, full_query)
                            < _score_course(courses[i], query_terms, full_query)
                      \/ _score_course(courses[k], query_terms, full_query)
                            = _score_course(courses[i], query_terms, full_query) /\ i <= k]))

scored_results(courses, query_terms, full_query) ==
    by_score(courses, query_terms, full_query,
             {i \in DOMAIN courses : _score_course(courses[i], query_terms, full_query) > 0},
             << >>)

\* the general search, and the one with the original query when the
\* processed query scored nothing
search_scored(courses, query, processed_query, limit, scored) ==
    first_of(IF scored = << >> /\ processed_query # strip(lower(query))
             THEN scored_results(courses, split(strip(lower(query))), lower(query))
             ELSE scored,
             limit)

\* the query that is a subject code and nothing else
search_subject_only(courses, query, processed_query, query_terms, limit) ==
    IF /\ Len(query_terms) = 1
       /\ isalpha(query_terms[1])
       /\ Len(query_terms[1]) \in 2..4
       /\ \E i \in DOMAIN courses : upper(courses[i].subject) = upper(query_terms[1])
    THEN search_by_subject(courses, query_terms[1], limit)
    ELSE search_scored(courses, query, processed_query, limit,
                       scored_results(courses, query_terms, strip(lower(processed_query))))

\* the query that is a course code and nothing else
search_course_code(courses, query, processed_query, query_terms, limit) ==
    IF /\ Len(query_terms) = 2
       /\ isalpha(query_terms[1]) /\ Len(query_terms[1]) \in 2..4
       /\ isdigit(query_terms[2]) /\ Len(query_terms[2]) \in 3..4
       /\ \E i \in DOMAIN courses :
             courses[i].course_code = join2(upper(query_terms[1]), query_terms[2])
    THEN <<courses[CHOOSE i \in DOMAIN courses :
               courses[i].course_code = join2(upper(query_terms[1]), query_terms[2])]>>
    ELSE search_subject_only(courses, query, processed_query, query_terms, limit)

search_processed(courses, query, processed_query, limit) ==
    IF processed_query = << >> THEN << >>
    ELSE search_course_code(courses, query, processed_query,
                            split(strip(lower(processed_query))), limit)

\* CourseRetriever.search
course_search(courses, query, limit) ==
    search_processed(courses, query,
                     preprocess({upper(courses[i].subject) : i \in DOMAIN courses},
                                query).processed,
                     limit)

\* _route_courses of a query with a subject and a level and no course code:
\* strategy 2, then strategy 4 when that found nothing
subject_level_results(courses, query, limit, results) ==
    IF results = << >> THEN course_search(courses, query, limit) ELSE results

subject_level_filtered(courses, query, level, limit, results) ==
    subject_level_results(courses, query, limit,
                          IF results # << >> THEN level_filtered(results, level) ELSE results)

route_subject_level(courses, query, subject, level, scope) ==
    subject_level_filtered(courses, query, level,
                           IF scope = "complete_list" THEN 50 ELSE 10,
                           search_by_subject(courses, subject,
                                             IF scope = "complete_list" THEN 50 ELSE 10))

\* ------------------------------------------------------------ the course queries on their own

\* ---- bounds
MaxPreceding == 11

\* the i-th course of a subject at a level
course_at(subject, number, level) ==
    [course_code |-> join2(subject, numeral(number)), subject |-> subject, level |-> level]

undergraduates(from, n) ==
    [i \in 1..n |-> course_at(<<"E","E","C","S">>, 100 + from + i, <<"u","n","d","e","r","g","r","a","d","u","a","t","e">>)]

graduates(n) == [i \in 1..n |-> course_at(<<"E","E","C","S">>, 700 + i, <<"g","r","a","d","u","a","t","e">>)]

\* The datasets: courses of another subject first or not, then undergraduate
\* courses of the subject, graduate ones, and undergraduate ones again
CourseDatasets ==
    {(IF other THEN <<course_at(<<"M","A","T","H">>, 800, <<"g","r","a","d","u","a","t","e">>)>> ELSE << >>)
     \o undergraduates(0, before) \o graduates(wanted) \o undergraduates(before, behind) :
        other \in BOOLEAN, before \in 0..MaxPreceding, wanted \in 0..2, behind \in 0..1}

\* the queries, of the scope top_results and of the scope complete_list
SubjectLevelQueries ==
    {[query |-> <<"g","r","a","d","u","a","t","e"," ","E","E","C","S"," ","c","o","u","r","s","e","s">>, scope |-> "top_results"],
     [query |-> <<"a","l","l"," ","g","r","a","d","u","a","t","e"," ","E","E","C","S"," ","c","o","u","r","s","e","s">>, scope |-> "complete_list"]}

InitCourses ==
    /\ bot = None
    /\ _smart_cache = None
    /\ clock = 0
    /\ conversations = << >>
    /\ \E courses \in CourseDatasets, typed \in SubjectLevelQueries :
          done = [op |-> "input", courses |-> courses, query |-> typed.query,
                  scope |-> typed.scope, subject |-> <<"E","E","C","S">>, level |-> <<"g","r","a","d","u","a","t","e">>]
    /\ rate_limiter = None

\* router._route_courses(query, entities, scope, ...) with the entities
\* subject and level
RouteCourses ==
    /\ done.op = "input"
    /\ done' = [op |-> "courses", courses |-> done.courses, query |-> done.query,
                scope |-> done.scope, subject |-> done.subject, level |-> done.level,
                results |-> route_subject_level(done.courses, done.query, done.subject,
                                                done.level, done.scope)]
    /\ UNCHANGED <<bot, _smart_cache, clock, conversations>>
    /\ UNCHANGED rate_limiter

NextCourses == RouteCourses

SpecCourses == InitCourses /\ [][NextCourses]_vars

\* ------------------------------------------------------------ rate_limit.py: RateLimiter

\* int(os.getenv("RATE_LIMIT_PER_MINUTE", "10")) and the like, by their defaults
REQUESTS_PER_MINUTE == 10

REQUESTS_PER_HOUR == 100

REQUESTS_PER_DAY == 500

\* dollars are counted in thousandths: 50.0 and 0.005
DAILY_BUDGET_LIMIT == 50000

ESTIMATED_COST_PER_QUERY == 5

\* the addresses os.getenv("WHITELISTED_IPS") names in the deployment
WHITELISTED_IPS == {"10.0.0.1"}

\* RateLimiter.__init__ on a day
RateLimiter(today) ==
    [minute_buckets |-> << >>, hour_buckets |-> << >>, day_buckets |-> << >>,
     daily_spend |-> << >>, daily_queries |-> << >>,
     global_spend_today |-> 0, global_queries_today |-> 0, current_day |-> today]

\* datetime.utcnow().date(), as the number of the day
utc_date(now) == now \div 86400

\* hashlib.sha256(ip.encode()).hexdigest()[:16]: a value of its own for
\* each address
_get_ip_hash(ip) == <<"sha256", ip>>

\* [t for t in bucket if t > cutoff]
_cleanup_old_entries(bucket, max_age_seconds, now) ==
    SelectSeq(bucket, LAMBDA t : t > now - max_age_seconds)

\* _reset_daily_if_needed
_reset_daily_if_needed(self, now) ==
    IF utc_date(now) # self.current_day
    THEN [self EXCEPT !.daily_spend = << >>, !.daily_queries = << >>,
                      !.global_spend_today = 0, !.global_queries_today = 0,
                      !.current_day = utc_date(now)]
    ELSE self

\* RateLimitInfo, without reset_at and message
RateLimitInfo(allowed, remaining, limit_type) ==
    [allowed |-> allowed, remaining |-> remaining, limit_type |-> limit_type]

\* What check_rate_limit did: the limiter after the call and what it returned
Checked(self, info) == [self |-> self, info |-> info]

\* the buckets of the address, the old entries dropped
cleaned(self, ip_hash, now) ==
    [self EXCEPT
        !.minute_buckets = put(@, ip_hash, _cleanup_old_entries(get(@, ip_hash, << >>), 60, now)),
        !.hour_buckets = put(@, ip_hash, _cleanup_old_entries(get(@, ip_hash, << >>), 3600, now)),
        !.day_buckets = put(@, ip_hash, _cleanup_old_entries(get(@, ip_hash, << >>), 86400, now))]

\* all checks passed: the request is recorded
recorded(self, ip_hash, now) ==
    [self EXCEPT !.minute_buckets[ip_hash] = Append(@, now),
                 !.hour_buckets[ip_hash] = Append(@, now),
                 !.day_buckets[ip_hash] = Append(@, now),
                 !.global_queries_today = @ + 1,
                 !.global_spend_today = @ + ESTIMATED_COST_PER_QUERY]

\* a minute limit that lets one request more through
minute_limit_passed(minute_count) == minute_count > REQUESTS_PER_MINUTE

\* minute_count >= REQUESTS_PER_MINUTE
minute_limit_reached(minute_count) == minute_count >= REQUESTS_PER_MINUTE

\* the four checks, then the recording
check_limits(self, ip_hash, now, minute_count) ==
    IF minute_limit_reached(minute_count)
    THEN Checked(self, RateLimitInfo(FALSE, 0, "minute"))
    ELSE IF Len(self.hour_buckets[ip_hash]) >= REQUESTS_PER_HOUR
    THEN Checked(self, RateLimitInfo(FALSE, 0, "hour"))
    ELSE IF Len(self.day_buckets[ip_hash]) >= REQUESTS_PER_DAY
    THEN Checked(self, RateLimitInfo(FALSE, 0, "day"))
    ELSE IF self.global_spend_today >= DAILY_BUDGET_LIMIT
    THEN Checked(self, RateLimitInfo(FALSE, 0, "budget"))
    ELSE Checked(recorded(self, ip_hash, now),
                 RateLimitInfo(TRUE, REQUESTS_PER_MINUTE - minute_count - 1, "none"))

check_cleaned(self, ip_hash, now) ==
    check_limits(self, ip_hash, now, Len(self.minute_buckets[ip_hash]))

check_today(self, ip, now) ==
    IF ip \in WHITELISTED_IPS THEN Checked(self, RateLimitInfo(TRUE, 999, "none"))
    ELSE check_cleaned(cleaned(self, _get_ip_hash(ip), now), _get_ip_hash(ip), now)

\* RateLimiter.check_rate_limit
check_rate_limit(self, ip, now) == check_today(_reset_daily_if_needed(self, now), ip, now)

\* ------------------------------------------------------------ the rate limiter on its own

\* ---- bounds
MaxRateCalls == 12

\* the times of the requests: within a minute and at its end
RateTimes == {0, 59, 60}

\* the addresses of the clients, one of them whitelisted
RateIps == {"203.0.113.7", "10.0.0.1"}

InitRate ==
    /\ bot = None
    /\ _smart_cache = None
    /\ clock = 0
    /\ conversations = << >>
    /\ rate_limiter = RateLimiter(0)
    /\ done = [op |-> "init", calls |-> 0, allowed_at |-> << >>]

\* What a call did, with the limiter before it; allowed_at holds the times
\* of the allowed calls of each address that is not whitelisted
RateChecked(ip, checked) ==
    [op |-> "check_rate_limit", calls |-> done.calls + 1, ip |-> ip, now |-> clock,
     before |-> rate_limiter, info |-> checked.info,
     allowed_at |-> IF checked.info.allowed /\ ip \notin WHITELISTED_IPS
                    THEN put(done.allowed_at, ip, Append(get(done.allowed_at, ip, << >>), clock))
                    ELSE done.allowed_at]

\* rate_limiter.check_rate_limit(ip)
CheckRateLimit ==
    /\ done.calls < MaxRateCalls
    /\ \E ip \in RateIps :
          /\ rate_limiter' = check_rate_limit(rate_limiter, ip, clock).self
          /\ done' = RateChecked(ip, check_rate_limit(rate_limiter, ip, clock))
    /\ UNCHANGED <<bot, _smart_cache, clock, conversations>>

\* time passes, to a later one of the times
RateTick ==
    /\ \E later \in RateTimes : later > clock /\ clock' = later
    /\ UNCHANGED <<bot, _smart_cache, conversations, rate_limiter, done>>

NextRate == CheckRateLimit \/ RateTick

SpecRate == InitRate /\ [][NextRate]_vars

\* ------------------------------------------------------------ claims about the clarification

AskedNow == done.op = "ask"

WasWaiting == AskedNow /\ done.before.waiting_for_clarification

\* the vague nouns, and the clarifying questions
VagueNouns == Range(vague_terms)

ClarifyingQuestions ==
    {"ASK_AREA_OR_DEPARTMENT", "ASK_RESEARCH_TOPIC", "ASK_SUBJECT_OR_DEPARTMENT",
     "ASK_WHAT_ABOUT", "ASK_MORE_DETAILS"}

\* the checks ask makes before it looks for a pending clarification
PassesEarlyChecks(q) ==
    /\ strip(q) # << >>
    /\ _validate_query(q)
    /\ ~_is_greeting(strip(q))
    /\ ~_is_about_bot(strip(q))

\* C1: in every session state, an input that is one vague noun alone is
\* intercepted by the ambiguity handler: the reply is a clarifying question,
\* the clarification is stored as pending, and the turn calls neither the
\* router nor a retriever.
VagueNounAlwaysIntercepted ==
    (AskedNow /\ done.question \in VagueNouns) =>
        /\ done.reply.kind \in ClarifyingQuestions
        /\ bot.waiting_for_clarification
        /\ bot.original_ambiguous_query = done.question
        /\ done.routed = << >>
        /\ done.calls = << >>

\* C2, as claimed: while a clarification is pending, every non-empty input is
\* taken for the answer and merged with the stored ambiguous query.
EveryInputIsTheAnswer ==
    (WasWaiting /\ done.question # << >>) => Len(done.merged) = 1

\* C2: while a clarification is pending, an input that passes validation and
\* is neither a greeting nor a question about the assistant is taken for the
\* answer: it is joined to the stored ambiguous query, in one order or the
\* other, and ask runs again on the joined text in the same turn; any other
\* input leaves the clarification pending.
AnswerMergedAfterEarlyChecks ==
    WasWaiting =>
        IF PassesEarlyChecks(done.question)
        THEN /\ done.merged = <<<<done.before.original_ambiguous_query, strip(done.question)>>>>
             /\ Len(done.asked) = 2
             /\ done.asked[2] \in
                    {join2(lower(strip(done.before.original_ambiguous_query)),
                           strip(done.question)),
                     join2(strip(done.question),
                           lower(strip(done.before.original_ambiguous_query)))}
        ELSE /\ done.merged = << >>
             /\ done.asked = <<done.question>>
             /\ bot.waiting_for_clarification
             /\ bot.original_ambiguous_query = done.before.original_ambiguous_query

\* a pending clarification was answered and the joined text went to the router
AnswerMergedAndRouted ==
    /\ WasWaiting
    /\ Len(done.merged) = 1
    /\ done.routed # << >>
    /\ done.routed[1] = done.asked[2]

\* C3, as claimed: when a turn that consumed a pending clarification returns,
\* nothing is pending.
NothingPendingAfterAnswer ==
    (AskedNow /\ done.merged # << >>) =>
        /\ ~bot.waiting_for_clarification
        /\ bot.original_ambiguous_query = None
        /\ bot.clarification_context = None

\* C3: when a turn that consumed a pending clarification returns, the session
\* waits only if the joined text was itself ambiguous, and then for the joined
\* text, never for the query it has consumed; otherwise nothing is pending,
\* whatever the joined text resolved to.
ConsumedClarificationIsGone ==
    (AskedNow /\ done.merged # << >>) =>
        IF done.reply.kind \in ClarifyingQuestions
        THEN /\ bot.waiting_for_clarification
             /\ bot.original_ambiguous_query = done.asked[2]
             /\ bot.original_ambiguous_query # done.before.original_ambiguous_query
        ELSE /\ ~bot.waiting_for_clarification
             /\ bot.original_ambiguous_query = None
             /\ bot.clarification_context = None

\* the joined text resolved to nothing and nothing is pending
AnswerResolvedToNothing ==
    /\ AskedNow
    /\ done.merged # << >>
    /\ done.reply.kind = "answer_without_context"
    /\ ~bot.waiting_for_clarification

\* C4: after clear_history, in any session state, no clarification is
\* pending: waiting_for_clarification is false and no ambiguous query is
\* stored.
NothingPendingAfterClear ==
    done.op = "clear_history" =>
        /\ ~bot.waiting_for_clarification
        /\ bot.original_ambiguous_query = None


\* C26: in every state of a session, after any calls of ask and
\* clear_history, the three fields of the pending clarification agree:
\* waiting_for_clarification is true if and only if original_ambiguous_query
\* is set, if and only if clarification_context is set.
ClarificationFieldsAgree ==
    /\ bot.waiting_for_clarification <=> bot.original_ambiguous_query # None
    /\ bot.waiting_for_clarification <=> bot.clarification_context # None

\* an answer was merged and the three fields were cleared together
ClarificationCleared ==
    /\ WasWaiting
    /\ done.merged # << >>
    /\ done.before.clarification_context # None
    /\ ~bot.waiting_for_clarification
    /\ bot.clarification_context = None
\* ------------------------------------------------------------ the preprocessor's contract

\* the tokens of a list that are among the given ones, in their order
RECURSIVE only(_, _)
only(tokens, kept) ==
    IF tokens = << >> THEN << >>
    ELSE IF Head(tokens) \in kept THEN <<Head(tokens)>> \o only(Tail(tokens), kept)
    ELSE only(Tail(tokens), kept)

\* the tokens preprocess joins into the processed text
final_tokens(valid_subject_codes, tokens) ==
    _apply_fuzzy_correction(_apply_synonyms(valid_subject_codes, tokens).tokens).tokens

\* C14: for every catalog code and every configured set of valid subject
\* codes, preprocess turns the space-separated form and the joined form into
\* the same result: the upper-cased code as the processed text and as the one
\* detected code, and no correction.
SpacedAndJoinedCodesAgree ==
    \A code \in CatalogCodes :
       done.op = "preprocess" /\ done.query \in {spaced(code), joined(code)}
       => /\ done.result.processed = upper_code(code)
          /\ done.result.detected_codes = <<upper_code(code)>>
          /\ done.result.corrections = << >>

\* C15: the tokens that code detection recognised as codes are, in the same
\* order, the recognised codes among the tokens of the processed output:
\* synonym expansion and typo correction neither alter nor consume one.
RecognisedCodesSurvive ==
    done.op = "preprocess" /\ done.result.normalized # << >>
    => only(final_tokens(done.valid_subject_codes,
                         _detect_codes(done.valid_subject_codes,
                                       done.result.normalized).tokens),
            Range(done.result.detected_codes))
       = only(_detect_codes(done.valid_subject_codes, done.result.normalized).tokens,
              Range(done.result.detected_codes))

\* C16: applying _apply_synonyms to its own output returns the same tokens
\* and records no correction.
SynonymsIdempotent ==
    [][done.op = "synonyms" /\ done'.op = "synonyms"
       => done'.tokens = done.tokens /\ done'.corrections = << >>]_vars

\* _apply_synonyms has expanded an abbreviation and has run again on its output
ExpandedThenAppliedAgain ==
    done.op = "synonyms" /\ done.applied = 2 /\ done.expanded > 0

\* ------------------------------------------------------------ claims about the classifier

\* C17: whatever the query and whatever the language model answers, the result
\* of classify has an intent of the closed set (the twelve named intents and
\* general), and a query no pattern matches yields general with a low
\* confidence, not a failure and not an intent outside the set.
IntentInClosedSet ==
    done.op = "classify" =>
        /\ "intent" \in DOMAIN done.classified.returned
        /\ done.classified.returned.intent \in Intents
        /\ done.classified.pattern.intent = "general" =>
               /\ done.classified.returned.intent = "general"
               /\ "confidence" \in DOMAIN done.classified.returned
               /\ "number" \in DOMAIN done.classified.returned.confidence
               /\ done.classified.returned.confidence.number < 70

\* the language model was asked and its answer carries a numeric confidence
\* (0 when it carries none)
llm_answered ==
    /\ done.classified.calls = <<"llm">>
    /\ done.reply # Empty
    /\ "number" \in DOMAIN get(done.reply, "confidence", Number(0))

\* C18: classify asks the language model exactly when the pattern confidence
\* is below 0.7 and the fallback is allowed; a result other than the pattern
\* result is the model's result with a strictly higher confidence; when the
\* model fails, or reports an equal or lower confidence, the pattern result is
\* returned unchanged.
EscalatesOnlyWhenUnsure ==
    done.op = "classify" =>
        /\ done.classified.calls \in {<< >>, <<"llm">>}
        /\ done.classified.calls = <<"llm">>
               <=> (done.classified.pattern.confidence.number < 70 /\ done.use_llm_fallback)
        /\ (done.classified.returned # done.classified.pattern
            /\ "raised" \notin DOMAIN done.classified.returned) =>
               /\ llm_answered
               /\ get(done.reply, "confidence", Number(0)).number
                      > done.classified.pattern.confidence.number
               /\ done.classified.returned = _classify_with_llm(done.query, done.reply)
        /\ (done.classified.calls = <<"llm">> /\ done.reply = Empty) =>
               done.classified.returned = done.classified.pattern
        /\ (llm_answered /\ get(done.reply, "confidence", Number(0)).number
                                <= done.classified.pattern.confidence.number) =>
               done.classified.returned = done.classified.pattern

\* the language model was asked, reported exactly the pattern confidence, and
\* the pattern result came back
EqualConfidenceKeepsPattern ==
    /\ done.op = "classify"
    /\ llm_answered
    /\ get(done.reply, "confidence", Number(0)) = done.classified.pattern.confidence
    /\ done.classified.returned = done.classified.pattern

\* C19: "who teaches machine learning", typed or as the preprocessor corrects
\* it, is classified as faculty_search with the research area "machine
\* learning", so that route takes it to the faculty retriever.
WhoTeachesIsFacultySearch ==
    /\ (done.op = "classify" /\ done.query = <<"w","h","o"," ","t","e","a","c","h","e","s"," ","m","a","c","h","i","n","e"," ","l","e","a","r","n","i","n","g">>) =>
           /\ get(done.classified.returned, "intent", "None") = "faculty_search"
           /\ get(get(done.classified.returned, "entities", Empty), "research_area", "None")
                  = "machine learning"
    /\ (done.op = "route" /\ done.routed.processed_query = <<"w","h","o"," ","t","e","a","c","h","e","s"," ","m","a","c","h","i","n","e"," ","l","e","a","r","n","i","n","g">>) =>
           /\ done.routed.intent = "faculty_search"
           /\ get(done.routed.entities, "research_area", "None") = "machine learning"

\* one cap lets more results through than another
larger(limit, than) == than.limited /\ (~limit.limited \/ limit.most > than.most)

\* the patterns alone decided the classification
by_patterns(routed) == ~routed.raised /\ routed.classified.calls = << >>

widened(routed, base) ==
    (by_patterns(routed) /\ by_patterns(base) /\ base.scope = "top_results") =>
        /\ routed.intent = base.intent
        /\ routed.entities = base.entities
        /\ routed.scope = "complete_list"
        /\ larger(routed.limit, base.limit)

\* C20: "all " in front of a query the patterns classify with scope
\* top_results leaves intent and entities as they were, makes the scope
\* complete_list, and makes route apply a strictly larger cap.
WantsEverythingOnlyWidens ==
    \A query \in BaseQueries :
        (done.op = "route" /\ done.query = with_all(query)) =>
            widened(done.routed, route_steps(done.classifier, query, done.reply))

\* ------------------------------------------------------------ claims about the live lookup

\* every request of the call was answered, and with no section
all_without_sections ==
    /\ done.lookups # << >>
    /\ \A k \in DOMAIN done.lookups : done.lookups[k][3] = "none"

\* the entries of a cache are entries it held before
nothing_written(cache, before) ==
    /\ \A key \in DOMAIN cache.data_cache :
           key \in DOMAIN before.data_cache /\ cache.data_cache[key] = before.data_cache[key]
    /\ \A key \in DOMAIN cache.response_cache :
           /\ key \in DOMAIN before.response_cache
           /\ cache.response_cache[key] = before.response_cache[key]

\* C11: when a topic search finds no section at either level and every
\* resolved code finds none at either level, the reply is the not-found
\* message that names the topic asked for, last_mentioned_course keeps its
\* value, and nothing is written to the data cache or the response cache.
NotFoundSubstitutesNothing ==
    (done.op = "live" /\ done.query_info.is_topic_search /\ all_without_sections) =>
        /\ done.reply.kind = "not_found_topic"
        /\ done.course = done.query_info.course
        /\ \A i \in DOMAIN done.resolved :
               /\ <<done.resolved[i], "Graduate", "none">> \in Range(done.lookups)
               /\ <<done.resolved[i], "Undergraduate", "none">> \in Range(done.lookups)
        /\ bot.last_mentioned_course = done.before.last_mentioned_course
        /\ nothing_written(_smart_cache, done.before.cache)

\* a topic was resolved to codes, none of them had sections, and the session
\* had a course and cached data to lose
ResolvedCodesAllEmpty ==
    /\ done.op = "live"
    /\ done.query_info.is_topic_search
    /\ all_without_sections
    /\ done.resolved # << >>
    /\ done.before.last_mentioned_course # None
    /\ done.before.cache.data_cache # << >>
    /\ done.before.cache.response_cache # << >>

\* C9: a request that fails (success is false) is handled like a request
\* that found no section: after a failed first request the cascade goes on
\* with the same course at the other career level.
FailureContinuesCascade ==
    (done.op = "live" /\ done.lookups # << >> /\ done.lookups[1][3] = "failed") =>
        /\ Len(done.lookups) >= 2
        /\ done.lookups[2][1] = done.lookups[1][1]
        /\ done.lookups[2][2] = other_career_of(done.lookups[1][2])

\* the level inferred from the number of a code
inferred_level(code) == IF first_number(code) >= 500 THEN "Graduate" ELSE "Undergraduate"

\* the requests for the resolved codes: code by code in list order, each at
\* the inferred level and then at the other one, and none after a request
\* that found sections
in_list_order(tried, resolved) ==
    /\ tried # << >>
    /\ Len(tried) <= 2 * Len(resolved)
    /\ \A j \in DOMAIN tried :
           /\ tried[j][1] = resolved[(j + 1) \div 2]
           /\ tried[j][2] = IF j % 2 = 1 THEN inferred_level(tried[j][1])
                            ELSE other_career_of(inferred_level(tried[j][1]))
           /\ j < Len(tried) => tried[j][3] # "sections"

\* the last request won and its code is the course of the session, or every
\* code was tried at both levels
won_or_exhausted(tried, resolved, last_mentioned_course, course) ==
    IF tried[Len(tried)][3] = "sections"
    THEN last_mentioned_course = tried[Len(tried)][1] /\ course = tried[Len(tried)][1]
    ELSE Len(tried) = 2 * Len(resolved)

\* C10: during topic resolution the resolved codes are tried in list order,
\* each at the level inferred from its number and then at the other level;
\* the first request that finds a section wins, no request follows it, and
\* last_mentioned_course is that code.
ResolvedTriedInOrder ==
    (done.op = "live" /\ done.resolved # << >>) =>
        /\ in_list_order(SubSeq(done.lookups, 3, Len(done.lookups)), done.resolved)
        /\ won_or_exhausted(SubSeq(done.lookups, 3, Len(done.lookups)), done.resolved,
                            bot.last_mentioned_course, done.course)

\* the second resolved code won, after the first had no section at either
\* level, and became the course of the session
SecondCodeWon ==
    /\ done.op = "live"
    /\ Len(done.resolved) >= 2
    /\ Len(done.lookups) = 5
    /\ done.lookups[5] = <<done.resolved[2], inferred_level(done.resolved[2]), "sections">>
    /\ bot.last_mentioned_course = done.resolved[2]
    /\ done.before.last_mentioned_course # done.resolved[2]

\* ------------------------------------------------------------ claims about the department filter

\* the turn reached its search step with a question that holds "only" or
\* "just" and a keyword of the department filter, while a topic was remembered
rescoping ==
    /\ done.op = "ask"
    /\ done.search.branch # "none"
    /\ _is_department_filter(done.search.search_question)
    /\ done.before.last_search_query # << >>

\* the line opens a faculty block, or a section
opens_block(line) == startswith(strip(line), <<"P","r","o","f","e","s","s","o","r",":">>)

opens_section(line) == startswith(strip(line), <<"=","=","=">>)

\* the lines of a context that are a Department marker of a faculty block:
\* they follow the "Professor:" line of the block, with no section header
\* between
markers(context) ==
    {i \in DOMAIN context :
        /\ startswith(strip(context[i]), <<"D","e","p","a","r","t","m","e","n","t",":">>)
        /\ \E j \in 1..(i - 1) :
               /\ opens_block(context[j])
               /\ \A k \in (j + 1)..(i - 1) : ~opens_section(context[k])}

\* the marker names the department: the department is a substring of it,
\* whatever the case
names_department(marker, department) ==
    department # None /\ contains(lower(department), lower(marker))

\* the markers of a context that do not name the department
foreign(context, department) ==
    {i \in markers(context) : ~names_department(context[i], department)}

\* C12: after a search has been remembered, a follow-up that re-scopes to one
\* department leaves a context with no faculty block whose Department marker
\* does not match that department, whether the faculty retriever or the
\* vector fallback produced the context.
DepartmentRoundTrip ==
    rescoping =>
        foreign(done.search.context, _extract_department(done.search.search_question)) = {}

\* the vector fallback found faculty of several departments for the remembered
\* topic, and the follow-up kept the blocks of the one asked for
ForeignBlocksFiltered ==
    /\ rescoping
    /\ "smart_search" \in Range(done.calls)
    /\ foreign(done.search.found, _extract_department(done.search.search_question)) # {}
    /\ markers(done.search.context) # {}

\* C13: whenever a turn is recognised as a department re-scoping request and
\* a topic is remembered in last_search_query, ask makes exactly one router
\* call in that turn, for the remembered topic combined with the department.
RescopeReissuesTopic ==
    rescoping =>
        /\ Len(done.routed) = 1
        /\ startswith(done.routed[1], done.before.last_search_query)

\* ------------------------------------------------------------ claims about the cascade of route

\* the exact strategy of the call: the lookup of the course code of a course
\* query, of the name of a faculty query that names nothing else
exact_call(routed) ==
    IF routed.intent = "course_info" /\ "course_code" \in DOMAIN routed.entities
    THEN "get_course"
    ELSE IF /\ routed.intent = "faculty_search"
            /\ DOMAIN routed.entities = {"name"}
    THEN "search_by_name"
    ELSE "none"

\* the vector store was asked, or its construction was tried
vector_asked(calls) == "smart_search" \in Range(calls) \/ "Retriever" \in Range(calls)

\* C6: when the exact strategy of a route call (the lookup of the course code,
\* the lookup of the name) returns a record, no later strategy of the call is
\* executed: no subject or level lookup, no free-text search, no call of the
\* vector retriever.
ExactShortCircuits ==
    (done.op = "routed" /\ exact_call(done.r.routed) \in done.renv.hits) =>
        /\ done.r.calls = <<exact_call(done.r.routed)>>
        /\ done.r.results >= 1
        /\ done.r.source \in {"course_retriever", "faculty_retriever"}

\* a course code was found by the exact lookup while the free-text search and
\* the vector store had records too
ExactCourseFound ==
    /\ done.op = "routed"
    /\ exact_call(done.r.routed) = "get_course"
    /\ {"get_course", "search"} \subseteq done.renv.hits
    /\ done.renv.vector = "records"
    /\ done.use_vector_fallback
    /\ done.r.calls = <<"get_course">>

\* the intents a structured retriever serves
Structured ==
    {"faculty_search", "course_info", "dining_info", "housing_info", "transit_info",
     "financial_info"}

\* C7: for every intent a structured retriever serves, when the structured
\* strategies of a route call return no record and the vector fallback is
\* enabled, the vector source is queried before route returns.
EmptyCascadeAsksVector ==
    (/\ done.op = "routed"
     /\ done.use_vector_fallback
     /\ done.r.routed.intent \in Structured
     /\ ~(done.r.source \in {"faculty_retriever", "course_retriever", "campus_retriever"}
          /\ done.r.results > 0)) =>
        vector_asked(done.r.calls)

\* C8: when the vector source raises during a route call, while it is
\* constructed or while it searches, route catches the error and returns a
\* well-formed result with no record; no exception reaches the caller.
VectorErrorCaught ==
    (/\ done.op = "routed"
     /\ done.renv.vector \in {"init_raises", "search_raises"}
     /\ vector_asked(done.r.calls)) =>
        /\ ~done.r.raised
        /\ done.r.results = 0
        /\ done.r.result_count = 0

\* ------------------------------------------------------------ claims about POST /api/chat

\* the messages of the conversation the last request was on
Messages == conversations[done.conversation_id]

\* the last request came on a conversation whose request before was answered
\* with a clarifying question
AnsweredAClarifyingQuestion ==
    /\ done.op = "api_chat"
    /\ done.status = 200
    /\ Len(Messages) >= 4
    /\ Messages[Len(Messages) - 2].role = "assistant"
    /\ Messages[Len(Messages) - 2].content \in ClarifyingQuestions

\* C5: through POST /api/chat, a request answered with a clarifying question
\* leaves the ambiguous query pending until the next request on the same
\* conversation, and that request is processed as the answer, merged with the
\* original query.
ApiRemembersPendingClarification ==
    (AnsweredAClarifyingQuestion /\ PassesEarlyChecks(done.message)) =>
        /\ Len(done.merged) = 1
        /\ done.merged[1][1] = Messages[Len(Messages) - 3].content

\* ------------------------------------------------------------ claims about the format functions

\* the line that opens the block of a record
opens_record(domain, line) ==
    IF domain = "course" THEN startswith(line, <<"C","o","u","r","s","e",":"," ">>)
    ELSE IF domain = "faculty" THEN startswith(line, <<"P","r","o","f","e","s","s","o","r",":"," ">>)
    ELSE IF domain = "dining" THEN startswith(line, <<"N","a","m","e",":"," ">>)
    ELSE IF domain = "transit" THEN startswith(line, <<"R","o","u","t","e",":"," ">>)
    ELSE IF domain = "housing"
    THEN startswith(line, <<"N","a","m","e",":"," ">>) \/ line = <<"G","e","n","e","r","a","l"," ","I","n","f","o","r","m","a","t","i","o","n",":">>
    ELSE startswith(line, <<" "," ">>)

\* the number of records a context holds a block for
blocks(domain, context) ==
    Cardinality({i \in DOMAIN context : opens_record(domain, context[i])})

\* C21: for every domain and every list of records, the context the format
\* function of the domain builds holds blocks for at most a fixed number of
\* records (the 15 of the course format), whatever the length of the list.
ContextCapped ==
    done.op = "format" => blocks(done.domain, done.context) <= CourseContextCap

\* ------------------------------------------------------------ claims about the dataset files

\* C22: when the dataset file of one domain is missing or malformed, the
\* router is still constructed, a query of that domain gets no results, a
\* query of any other domain gets its normal results, and nothing is raised.
OnlyThatDomainDegrades ==
    /\ done.op = "construct" => done.constructed.raised = "None"
    /\ done.op = "route" =>
          /\ done.routed.raised = "None"
          /\ done.routed.value.result_count =
                (IF done.files[done.domain] = "ok" THEN DatasetRecords ELSE 0)

\* ------------------------------------------------------------ claims about the resolver

\* the entries of the table whose key is the topic, contains it or is contained in it
matching_entries(topic_lower) ==
    {i \in DOMAIN TOPIC_TO_COURSE_FALLBACK :
        \/ contains(TOPIC_TO_COURSE_FALLBACK[i][1], topic_lower)
        \/ contains(topic_lower, TOPIC_TO_COURSE_FALLBACK[i][1])}

codes_of(entries) ==
    UNION {{TOPIC_TO_COURSE_FALLBACK[i][2][k] : k \in DOMAIN TOPIC_TO_COURSE_FALLBACK[i][2]} :
              i \in entries}

no_duplicates(courses) ==
    \A i, k \in DOMAIN courses : i # k => courses[i] # courses[k]

\* what the claim says of a topic and the codes returned for it
resolved_by_table(topic_lower, courses, routed) ==
    /\ Len(courses) <= 3
    /\ no_duplicates(courses)
    /\ topic_index(topic_lower) # 0 =>
          courses = TOPIC_TO_COURSE_FALLBACK[topic_index(topic_lower)][2]
    /\ topic_index(topic_lower) = 0 /\ matching_entries(topic_lower) # {} =>
          /\ {courses[i] : i \in DOMAIN courses} \subseteq codes_of(matching_entries(topic_lower))
          /\ Len(courses) = IF Cardinality(codes_of(matching_entries(topic_lower))) < 3
                            THEN Cardinality(codes_of(matching_entries(topic_lower)))
                            ELSE 3
    /\ routed # << >> => matching_entries(topic_lower) = {}

highest(scores) ==
    {i \in DOMAIN scores : \A k \in DOMAIN scores : scores[k] <= scores[i]}

\* the intent the claim names: of those with the highest score, the one
\* listed earliest in intent_patterns
earliest_highest(scores) == intent_patterns[least(highest(scores))][1]

matched_any(scores) == \E i \in DOMAIN scores : scores[i] > 0

\* C24: in _detect_intent_regex the intent with the highest score wins, and
\* of several intents with the highest score the one listed earliest in
\* intent_patterns, whether or not a course code gave course_info its 3.
EarliestOfHighestWins ==
    done.op = "intent"
    /\ matched_any(scores_from(1, lower(done.query),
                               search(UpperCourseCode, done.query), << >>))
    => done.detected[1] =
          earliest_highest(scores_from(1, lower(done.query),
                                       search(UpperCourseCode, done.query), << >>))

\* ------------------------------------------------------------ claims about smart_search

\* the search restricted to the department found no record
filtered_found_none ==
    /\ done.dept_filter # None
    /\ search_faculty_enhanced(done.ranking, done.n_results, done.dept_filter) = << >>

\* C25: in smart_search, when the faculty search restricted to the detected
\* department returns no record, the faculty results returned are the records
\* of the search made again without the department filter.
RetryFillsFaculty ==
    done.op = "smart_search" /\ filtered_found_none =>
        done.faculty =
            first_of(deduped_by_name(search_faculty_enhanced(done.ranking, done.n_results, None),
                                     1, << >>),
                     done.n_results)

\* ------------------------------------------------------------ claims about the clarification dialogue

\* the turn was processed as the answer to a clarifying question
processed_as_answer(turn) == turn.op = "ask" /\ turn.merged # << >>

ttl_of(op) == IF op = "get_data" THEN DATA_TTL ELSE RESPONSE_TTL

\* the entries of the cache the call read, after the call
entries_of(op) ==
    IF op = "get_data" THEN _smart_cache.data_cache ELSE _smart_cache.response_cache

\* a get served the value last stored under the key, younger than the TTL
served_fresh(call) ==
    /\ call.key \in DOMAIN call.stored
    /\ call.got.value = call.stored[call.key].value
    /\ call.now - call.stored[call.key].at < ttl_of(call.op)

\* C28: the cache never serves a stale entry: get_data and get_response
\* return an entry only if its age is strictly below the TTL of its layer and
\* it is the value stored last under its key, and a lookup that finds an
\* expired entry removes it.
NeverServesStale ==
    done.op \in {"get_data", "get_response"} =>
        IF done.got.hit THEN served_fresh(done)
        ELSE done.key \notin DOMAIN entries_of(done.op)

\* a get at the very age of the TTL found the entry, served nothing and removed it
ExpiredEntryDropped ==
    /\ done.op = "get_data"
    /\ ~done.got.hit
    /\ done.key \in DOMAIN done.stored
    /\ done.now - done.stored[done.key].at = DATA_TTL
    /\ done.key \notin DOMAIN _smart_cache.data_cache

\* ------------------------------------------------------------ claims about the course queries

\* the courses of the subject at the level
at_subject_level(courses, subject, level) ==
    {i \in DOMAIN courses : courses[i].subject = subject /\ courses[i].level = level}

\* C29: for a course query with a subject and a level and no course code,
\* whenever the dataset holds a course of the subject at the level, the
\* result is not empty and every course of it has the subject and the level,
\* however many courses of the subject at other levels precede it.
SubjectAndLevelHonoured ==
    done.op = "courses" /\ at_subject_level(done.courses, done.subject, done.level) # {} =>
        /\ done.results # << >>
        /\ at_subject_level(done.results, done.subject, done.level) = DOMAIN done.results

\* ------------------------------------------------------------ claims about the rate limiter

\* the allowed calls of an address in the 60 seconds from a time on
allowed_within(times, from) == {i \in DOMAIN times : from <= times[i] /\ times[i] < from + 60}

\* the bucket of an address, empty when it has none
bucket_of(buckets, ip) == get(buckets, _get_ip_hash(ip), << >>)

\* a call added no timestamp to the bucket
nothing_added(before, now_held, ip) ==
    Len(bucket_of(now_held, ip)) <= Len(bucket_of(before, ip))

denied_recorded_nothing ==
    /\ nothing_added(done.before.minute_buckets, rate_limiter.minute_buckets, done.ip)
    /\ nothing_added(done.before.hour_buckets, rate_limiter.hour_buckets, done.ip)
    /\ nothing_added(done.before.day_buckets, rate_limiter.day_buckets, done.ip)
    /\ rate_limiter.global_queries_today <= done.before.global_queries_today
    /\ rate_limiter.global_spend_today <= done.before.global_spend_today

====
